---- MODULE Spec2Model ----
(***************************************************************************)
(* Model of the interception proxy (proxy_server.py), its proxy handlers   *)
(* (claude_code_proxy_handler.py, codex_proxy_handler.py,                  *)
(* gemini_proxy_handler.py), the local inference clients                   *)
(* (claude_code_client.py, codex_client.py), the subprocess runner and the *)
(* credential classifiers (utils.py, anthropic_router.py).                 *)
(*                                                                         *)
(* The specifications share the variables:                                 *)
(*   SpecKey  the credential classifiers applied to one credential;        *)
(*   SpecLib  one direct call of a runner, client or handler function;     *)
(*   Spec     the interception addon handling flows one after another;     *)
(*   SpecLive Spec with the fairness of the awaited CLI call;              *)
(*   SpecConc the addon handling two flows whose hooks interleave;         *)
(*   SpecCodex _handle_codex_request called directly on a flow;            *)
(*   SpecRouter the router library (anthropic_router.py, openai_router.py);*)
(*   SpecGemini the gemini_router module;                                  *)
(*   SpecArgv the command line each function builds for its CLI;           *)
(*   SpecSetup generate_certificates of setup_proxy.py and its child.      *)
(***************************************************************************)
EXTENDS Integers, Sequences, FiniteSets, TLC

VARIABLES
    \* -- SpecKey: one credential and the verdict of one classifier
    kkey,       \* the credential given: Some(text), or NoKey for None
    kverdict,   \* [by |-> classifier, key |-> the text classified, v |-> verdict]
    \* -- the CLI call in progress (all specifications that run a CLI)
    cli,        \* the call frame of the function that runs the CLI
    \* -- SpecLib / Spec: the proxy handler call in progress
    hcall,      \* the handle_*_request frame
    \* -- Spec: the addon
    flow,       \* the HTTP flow being handled
    stats,      \* AIInterceptor.stats
    \* -- SpecConc: the other flow in flight
    parked,     \* [flow, hcall, cli] of the flow the event loop is not running
    \* -- SpecRouter: the router library
    router,     \* the router object and its messages.create call in progress
    \* -- SpecSetup: setup_proxy.generate_certificates
    setup,      \* the frame of generate_certificates and the mitmdump child
    \* -- SpecRouter: the clock and the ids of the clients' Messages
    ids,        \* [now, ticks, issued]
    \* -- SpecGemini: the gemini_router module
    gemini,     \* the configured key, the GenerativeModel objects, the call
    \* -- SpecArgv: the command line of one CLI process
    spawned     \* [caller, model, cmd, stdin] of the process spawned last

vars ==
    <<kkey, kverdict, cli, hcall, flow, stats, parked, router, setup, ids, gemini,
      spawned>>

(***************************************************************************)
(* Texts.  A text is a sequence of runs [c |-> character, n |-> count]:    *)
(* <<[c |-> "9", n |-> 12]>> is "999999999999".  Lengths of 100 or 100000  *)
(* characters are then ordinary values.                                    *)
(***************************************************************************)
Run(ch, k) == [c |-> ch, n |-> k]

\* the sum of the counts of the runs lo..hi, by halves
RECURSIVE SumRuns(_, _, _)
SumRuns(s, lo, hi) ==
    IF lo > hi THEN 0
    ELSE IF lo = hi THEN s[lo].n
    ELSE LET mid == (lo + hi) \div 2
         IN  SumRuns(s, lo, mid) + SumRuns(s, mid + 1, hi)

\* len(s)
StrLen(s) == SumRuns(s, 1, Len(s))

\* s.count(ch)
RECURSIVE CountChar(_, _)
CountChar(s, ch) ==
    IF s = <<>> THEN 0
    ELSE (IF Head(s).c = ch THEN Head(s).n ELSE 0) + CountChar(Tail(s), ch)

\* len(s.split(sep)): one more than the number of separators
SplitCount(s, sep) == CountChar(s, sep) + 1

\* s.split(sep)[-1]: what follows the last separator, all of s without one
SplitLast(s, sep) ==
    LET idx == {i \in 1..Len(s) : s[i].c = sep}
    IN  IF idx = {} THEN s
        ELSE LET last == CHOOSE i \in idx : \A j \in idx : j <= i
             IN  SubSeq(s, last + 1, Len(s))

\* all(c == ch for c in s): true of the empty text
AllChars(s, ch) == \A i \in 1..Len(s) : s[i].c = ch

\* str.isspace of one character
IsSpace(ch) == ch \in {" ", "\n"}

\* s.strip(): leading and trailing white space removed
RECURSIVE LStrip(_)
LStrip(s) == IF s # <<>> /\ IsSpace(Head(s).c) THEN LStrip(Tail(s)) ELSE s

RECURSIVE RStrip(_)
RStrip(s) ==
    IF s # <<>> /\ IsSpace(s[Len(s)].c)
    THEN RStrip(SubSeq(s, 1, Len(s) - 1)) ELSE s

Strip(s) == RStrip(LStrip(s))

\* s[:k]
RECURSIVE Truncate(_, _)
Truncate(s, k) ==
    IF s = <<>> \/ k <= 0 THEN <<>>
    ELSE IF Head(s).n <= k THEN <<Head(s)>> \o Truncate(Tail(s), k - Head(s).n)
    ELSE <<Run(Head(s).c, k)>>

(***************************************************************************)
(* Credential classifiers                                                  *)
(***************************************************************************)
Some(s) == [some |-> TRUE, s |-> s]
NoKey == [some |-> FALSE, s |-> <<>>]
NoVerdict == [by |-> "none", key |-> <<>>, v |-> FALSE]

MaxKeyLength == 200
MaxKeyParts == 10
MaxKeyPartLength == 100

\* _is_all_nines without the sanity check on the key length
is_all_nines_no_length_check(api_key) ==
    IF api_key = <<>> THEN FALSE
    ELSE IF SplitCount(api_key, "-") > MaxKeyParts THEN FALSE
    ELSE LET key_part == SplitLast(api_key, "-")
         IN  /\ StrLen(key_part) > 0
             /\ StrLen(key_part) < MaxKeyPartLength
             /\ AllChars(key_part, "9")

\* AIInterceptor._is_all_nines
is_all_nines(api_key) ==
    IF api_key = <<>> \/ StrLen(api_key) > MaxKeyLength THEN FALSE
    ELSE IF SplitCount(api_key, "-") > MaxKeyParts THEN FALSE
    ELSE LET key_part == SplitLast(api_key, "-")
         IN  /\ StrLen(key_part) > 0
             /\ StrLen(key_part) < MaxKeyPartLength
             /\ AllChars(key_part, "9")

\* utils.is_all_nines_api_key, of an Optional[str]
is_all_nines_api_key(api_key) ==
    IF ~api_key.some \/ api_key.s = <<>> THEN FALSE
    ELSE LET key_part == IF CountChar(api_key.s, "-") > 0
                         THEN SplitLast(api_key.s, "-") ELSE api_key.s
         IN  AllChars(key_part, "9")

\* AnthropicRouter._check_claude_code_mode, of self.api_key
check_claude_code_mode(api_key) ==
    IF api_key = <<>> THEN FALSE
    ELSE LET key_part == IF CountChar(api_key, "-") > 0
                         THEN SplitLast(api_key, "-") ELSE api_key
         IN  AllChars(key_part, "9")

(***************************************************************************)
(* The credentials tried: every text of at most MaxKeyRuns runs over the   *)
(* characters and run lengths below, no two neighbouring runs of the same  *)
(* character, and None.                                                    *)
(***************************************************************************)
MaxKeyRuns == 3
KeyChars == {"9", "-", "x"}
KeyRunLengths == {1, 9, 10, 99, 100, 200}
KeyRuns == {Run(ch, k) : ch \in KeyChars, k \in KeyRunLengths}

KeyTexts ==
    UNION {{s \in [1..len -> KeyRuns] : \A i \in 1..(len - 1) : s[i].c # s[i + 1].c} :
           len \in 0..MaxKeyRuns}

\* the ANTHROPIC_API_KEY environment variable: unset, or set to a key
EnvKeys == {<<>>, <<Run("9", 9)>>, <<Run("x", 1), Run("-", 1)>>}

(***************************************************************************)
(* The CLI call.  A function that runs the CLI reacts to three events:     *)
(* the spawn failing, the bounded wait timing out, and the process         *)
(* exiting.  Each function below gives, for an event, whether the code     *)
(* kills (and then reaps) the child and how the call ends.                 *)
(***************************************************************************)
NoResult == [kind |-> "none", exc |-> "", msg |-> "", leak |-> "", text |-> <<>>]
Returned(text) == [kind |-> "return", exc |-> "", msg |-> "", leak |-> "", text |-> text]
\* exc: the exception class; msg: which message; leak: the outside text the
\* message embeds ("stderr", "cause" or "")
Raised(exc, msg, leak) ==
    [kind |-> "raise", exc |-> exc, msg |-> msg, leak |-> leak, text |-> <<>>]

SpawnFailed(err) == [e |-> "spawn_error", err |-> err, rc |-> 0, stdout |-> <<>>, stderr |-> <<>>]
TimedOut == [e |-> "timeout", err |-> "", rc |-> 0, stdout |-> <<>>, stderr |-> <<>>]
Exited(rc, out, errtext) == [e |-> "exit", err |-> "", rc |-> rc, stdout |-> out, stderr |-> errtext]

Reaction(kill, result) == [kill |-> kill, result |-> result]

MAX_PROMPT_LENGTH == 100000

\* utils.run_subprocess.  subprocess.run kills the child and waits for it
\* before it re-raises TimeoutExpired.
run_subprocess(ev, include_stderr) ==
    CASE ev.e = "timeout" ->
            Reaction(TRUE, Raised("CLITimeoutError", "timed out", ""))
      [] ev.e = "spawn_error" /\ ev.err = "FileNotFoundError" ->
            Reaction(FALSE, Raised("CLINotFoundError", "not found", ""))
      [] ev.e = "spawn_error" /\ ev.err # "FileNotFoundError" ->
            Reaction(FALSE, Raised("CLIError", "error calling", "cause"))
      [] ev.e = "exit" /\ ev.rc # 0 ->
            Reaction(FALSE, IF include_stderr
                            THEN Raised("CLIError", "cli error", "stderr")
                            ELSE Raised("CLIError", "cli error", ""))
      [] OTHER -> Reaction(FALSE, Returned(Strip(ev.stdout)))

\* run_subprocess_async whose timeout clause raises without kill and communicate
run_subprocess_async_no_kill(ev, include_stderr) ==
    CASE ev.e = "spawn_error" /\ ev.err = "FileNotFoundError" ->
            Reaction(FALSE, Raised("CLINotFoundError", "not found", ""))
      [] ev.e = "spawn_error" /\ ev.err # "FileNotFoundError" ->
            Reaction(FALSE, Raised(ev.err, "", "cause"))
      [] ev.e = "timeout" ->
            Reaction(FALSE, Raised("CLITimeoutError", "timed out", ""))
      [] ev.e = "exit" /\ ev.rc # 0 ->
            Reaction(FALSE, IF include_stderr
                            THEN Raised("CLIError", "cli error", "stderr")
                            ELSE Raised("CLIError", "cli error", ""))
      [] OTHER -> Reaction(FALSE, Returned(Strip(ev.stdout)))

\* utils.run_subprocess_async
run_subprocess_async(ev, include_stderr) ==
    CASE ev.e = "spawn_error" /\ ev.err = "FileNotFoundError" ->
            Reaction(FALSE, Raised("CLINotFoundError", "not found", ""))
      [] ev.e = "spawn_error" /\ ev.err # "FileNotFoundError" ->
            \* only FileNotFoundError is caught around create_subprocess_exec
            Reaction(FALSE, Raised(ev.err, "", "cause"))
      [] ev.e = "timeout" ->
            Reaction(TRUE, Raised("CLITimeoutError", "timed out", ""))
      [] ev.e = "exit" /\ ev.rc # 0 ->
            Reaction(FALSE, IF include_stderr
                            THEN Raised("CLIError", "cli error", "stderr")
                            ELSE Raised("CLIError", "cli error", ""))
      [] OTHER -> Reaction(FALSE, Returned(Strip(ev.stdout)))

\* ClaudeCodeClient._call_claude_cli, its try block around subprocess.run,
\* which kills the child and waits for it before it raises TimeoutExpired
ClaudeCodeClient_call_claude_cli(ev) ==
    CASE ev.e = "timeout" -> Reaction(TRUE, Raised("Exception", "timed out", ""))
      [] ev.e = "spawn_error" /\ ev.err = "FileNotFoundError" ->
            Reaction(FALSE, Raised("Exception", "not found", ""))
      [] ev.e = "spawn_error" /\ ev.err # "FileNotFoundError" ->
            Reaction(FALSE, Raised("Exception", "error calling", "cause"))
      [] ev.e = "exit" /\ ev.rc # 0 ->
            \* raised inside the try, wrapped by except Exception
            Reaction(FALSE, Raised("Exception", "error calling", "stderr"))
      [] OTHER -> Reaction(FALSE, Returned(Strip(ev.stdout)))

\* CodexClient._call_claude_cli: the same clauses around subprocess.run
CodexClient_call_claude_cli(ev) == ClaudeCodeClient_call_claude_cli(ev)

\* ClaudeCodeClient.acreate_message, its try block around the CLI
ClaudeCodeClient_acreate_message(ev) ==
    CASE ev.e = "timeout" ->
            \* except asyncio.TimeoutError: raise, the process is not touched
            Reaction(FALSE, Raised("Exception", "timed out", ""))
      [] ev.e = "spawn_error" /\ ev.err = "FileNotFoundError" ->
            Reaction(FALSE, Raised("Exception", "not found", ""))
      [] ev.e = "spawn_error" /\ ev.err # "FileNotFoundError" ->
            Reaction(FALSE, Raised("Exception", "error calling", "cause"))
      [] ev.e = "exit" /\ ev.rc # 0 ->
            \* raised inside the try, wrapped by except Exception
            Reaction(FALSE, Raised("Exception", "error calling", "stderr"))
      [] OTHER -> Reaction(FALSE, Returned(Strip(ev.stdout)))

\* CodexClient.acreate_message, its try block around the CLI
CodexClient_acreate_message(ev) ==
    CASE ev.e = "timeout" ->
            \* proc.kill(); await proc.communicate(); then raise, wrapped
            Reaction(TRUE, Raised("Exception", "error calling", "")) 
      [] ev.e = "spawn_error" /\ ev.err = "FileNotFoundError" ->
            Reaction(FALSE, Raised("Exception", "not found", ""))
      [] ev.e = "spawn_error" /\ ev.err # "FileNotFoundError" ->
            Reaction(FALSE, Raised("Exception", "error calling", "cause"))
      [] ev.e = "exit" /\ ev.rc # 0 ->
            Reaction(FALSE, Raised("Exception", "error calling", "stderr"))
      [] OTHER -> Reaction(FALSE, Returned(Strip(ev.stdout)))

\* a CLI call of the handler that asks the runner for stderr in the message
call_claude_cli_async_with_stderr(ev) == run_subprocess_async(ev, TRUE)

\* a CLI call of the handler that returns the text of any length
call_claude_cli_async_without_cut(ev) == run_subprocess_async(ev, FALSE)

\* ClaudeCodeProxyHandler._call_claude_cli_async: run_subprocess_async with
\* include_stderr=False, its errors re-raised, the text cut to the maximum
ClaudeCodeProxyHandler_call_claude_cli_async(ev) ==
    LET r == run_subprocess_async(ev, FALSE)
    IN  IF r.result.kind = "return"
        THEN Reaction(r.kill, Returned(Truncate(r.result.text, MAX_PROMPT_LENGTH)))
        ELSE r

\* CodexProxyHandler._call_claude_cli_async
CodexProxyHandler_call_claude_cli_async(ev) ==
    CASE ev.e = "timeout" ->
            Reaction(TRUE, Raised("Exception", "timed out", ""))
      [] ev.e = "spawn_error" /\ ev.err = "FileNotFoundError" ->
            Reaction(FALSE, Raised("Exception", "not found", ""))
      [] ev.e = "spawn_error" /\ ev.err # "FileNotFoundError" ->
            \* except Exception: raise
            Reaction(FALSE, Raised(ev.err, "", "cause"))
      [] ev.e = "exit" /\ ev.rc # 0 ->
            Reaction(FALSE, Raised("Exception", "cli error", ""))
      [] OTHER ->
            Reaction(FALSE, Returned(Truncate(Strip(ev.stdout), MAX_PROMPT_LENGTH)))

\* GeminiProxyHandler._call_gemini_cli_async
GeminiProxyHandler_call_gemini_cli_async(ev) ==
    CASE ev.e = "timeout" ->
            \* except asyncio.TimeoutError: raise Exception, no kill
            Reaction(FALSE, Raised("Exception", "timed out", ""))
      [] ev.e = "spawn_error" /\ ev.err = "FileNotFoundError" ->
            Reaction(FALSE, Raised("Exception", "not found", ""))
      [] ev.e = "spawn_error" /\ ev.err # "FileNotFoundError" ->
            Reaction(FALSE, Raised(ev.err, "", "cause"))
      [] ev.e = "exit" /\ ev.rc # 0 ->
            Reaction(FALSE, Raised("Exception", "cli error", ""))
      [] OTHER ->
            Reaction(FALSE, Returned(Truncate(Strip(ev.stdout), MAX_PROMPT_LENGTH)))

\* GeminiClient._call_gemini_cli: its try block around subprocess.run, which
\* kills the child and waits for it before it raises TimeoutExpired
GeminiClient_call_gemini_cli(ev) ==
    CASE ev.e = "timeout" -> Reaction(TRUE, Raised("Exception", "timed out", ""))
      [] ev.e = "spawn_error" /\ ev.err = "FileNotFoundError" ->
            Reaction(FALSE, Raised("Exception", "not found", ""))
      [] ev.e = "spawn_error" /\ ev.err # "FileNotFoundError" ->
            Reaction(FALSE, Raised("Exception", "error calling", "cause"))
      [] ev.e = "exit" /\ ev.rc # 0 ->
            \* raised inside the try, wrapped by except Exception
            Reaction(FALSE, Raised("Exception", "error calling", "stderr"))
      [] OTHER -> Reaction(FALSE, Returned(Strip(ev.stdout)))

\* GeminiClient._call_gemini_cli_async
GeminiClient_call_gemini_cli_async(ev) ==
    CASE ev.e = "timeout" ->
            \* except asyncio.TimeoutError: raise Exception, no kill
            Reaction(FALSE, Raised("Exception", "timed out", ""))
      [] ev.e = "spawn_error" /\ ev.err = "FileNotFoundError" ->
            Reaction(FALSE, Raised("Exception", "not found", ""))
      [] ev.e = "spawn_error" /\ ev.err # "FileNotFoundError" ->
            Reaction(FALSE, Raised("Exception", "error calling", "cause"))
      [] ev.e = "exit" /\ ev.rc # 0 ->
            Reaction(FALSE, Raised("Exception", "error calling", "stderr"))
      [] OTHER -> Reaction(FALSE, Returned(Strip(ev.stdout)))

Runners == {"run_subprocess", "run_subprocess_async"}
GeminiClientCalls == {"GeminiClient._call_gemini_cli",
                      "GeminiClient._call_gemini_cli_async"}
Clients == {"ClaudeCodeClient.acreate_message", "CodexClient.acreate_message",
            "ClaudeCodeClient.create_message", "CodexClient.create_message"}
\* the text a client's Message id begins with; a time stamp follows
message_id_prefix(caller) ==
    IF caller \in {"CodexClient.create_message", "CodexClient.acreate_message"}
    THEN "msg_codex_" ELSE "msg_claude_code_"

\* the clock in milliseconds, the ticks it made, the ids of the Messages
\* the clients have returned
NoIds == [now |-> 0, ticks |-> 0, issued |-> <<>>]
MaxTicks == 2
\* a tick within the second, and one of a whole second
TickSamples == {1, 1000}

\* datetime.now().strftime("%Y%m%d%H%M%S"): the date and time to the second
strftime_seconds(now) == now \div 1000

\* the id of a client's Message made at the instant now
message_id(caller, now) ==
    [prefix |-> message_id_prefix(caller), stamp |-> strftime_seconds(now)]

HandlerCalls == {"ClaudeCodeProxyHandler._call_claude_cli_async",
                 "CodexProxyHandler._call_claude_cli_async",
                 "GeminiProxyHandler._call_gemini_cli_async"}
CliCallers == Runners \cup Clients \cup HandlerCalls \cup GeminiClientCalls

\* the reaction of the running function to an event
React(caller, ev, include_stderr) ==
    CASE caller = "run_subprocess" -> run_subprocess(ev, include_stderr)
      [] caller = "run_subprocess_async" -> run_subprocess_async(ev, include_stderr)
      [] caller = "ClaudeCodeClient.acreate_message" ->
            ClaudeCodeClient_acreate_message(ev)
      [] caller = "CodexClient.acreate_message" -> CodexClient_acreate_message(ev)
      [] caller = "ClaudeCodeClient.create_message" ->
            ClaudeCodeClient_call_claude_cli(ev)
      [] caller = "CodexClient.create_message" -> CodexClient_call_claude_cli(ev)
      [] caller = "ClaudeCodeProxyHandler._call_claude_cli_async" ->
            ClaudeCodeProxyHandler_call_claude_cli_async(ev)
      [] caller = "CodexProxyHandler._call_claude_cli_async" ->
            CodexProxyHandler_call_claude_cli_async(ev)
      [] caller = "GeminiClient._call_gemini_cli" -> GeminiClient_call_gemini_cli(ev)
      [] caller = "GeminiClient._call_gemini_cli_async" ->
            GeminiClient_call_gemini_cli_async(ev)
      [] OTHER -> GeminiProxyHandler_call_gemini_cli_async(ev)

(***************************************************************************)
(* JSON values: kind is the type, i the number (a bool as 0 or 1, a float in  *)
(* tenths), s the text, name or items.                                     *)
(***************************************************************************)
JAbsent == [kind |-> "absent", i |-> 0, s |-> <<>>]
JNull == [kind |-> "null", i |-> 0, s |-> <<>>]
JBool(b) == [kind |-> "bool", i |-> IF b THEN 1 ELSE 0, s |-> <<>>]
JInt(k) == [kind |-> "int", i |-> k, s |-> <<>>]
JFloat(tenths) == [kind |-> "float", i |-> tenths, s |-> <<>>]
JStr(s) == [kind |-> "str", i |-> 0, s |-> s]
JList(items) == [kind |-> "list", i |-> 0, s |-> items]
JDict(fields) == [kind |-> "dict", i |-> 0, s |-> fields]

\* d.get(key, default)
Get(j, default) == IF j.kind = "absent" THEN default ELSE j

\* bool(x)
Truthy(j) ==
    CASE j.kind \in {"absent", "null"} -> FALSE
      [] j.kind \in {"bool", "int", "float"} -> j.i # 0
      [] OTHER -> j.s # <<>>

\* isinstance(x, int): a bool is an int
IsInt(j) == j.kind \in {"int", "bool"}
\* isinstance(x, (int, float))
IsNumber(j) == j.kind \in {"int", "bool", "float"}
\* the number in tenths
Tenths(j) == IF j.kind = "float" THEN j.i ELSE 10 * j.i

(***************************************************************************)
(* The CLI call frame and the child process.                               *)
(*   pc    idle, spawn (about to create the process), wait (in the bounded *)
(*         wait on communicate), reap (killed, awaiting communicate), done *)
(*   proc  none, running, zombie (dead, not yet waited for), reaped        *)
(*   stream, messages, system  the arguments of a client's create_message  *)
(*   prompt  the prompt the client has built for the CLI                   *)
(***************************************************************************)
CliIdle ==
    [caller |-> "none", pc |-> "idle", proc |-> "none", events |-> <<>>,
     env |-> "none", out |-> <<>>, include_stderr |-> TRUE, pending |-> NoResult,
     result |-> NoResult, spawns |-> 0, procs |-> 0, stream |-> FALSE,
     messages |-> JAbsent, system |-> JAbsent, prompt |-> <<>>]

\* the frame on entry to the function that runs the CLI
CliEnter(caller, include_stderr) ==
    [CliIdle EXCEPT !.caller = caller, !.pc = "spawn",
                    !.include_stderr = include_stderr]

\* what the CLI may write: nothing, white space only, text with white space
\* around it, text of exactly and of more than the maximum length
StdoutSamples ==
    {<<>>,
     <<Run("a", 3)>>,
     <<Run(" ", 1), Run("a", 2), Run("\n", 1)>>,
     <<Run("a", 1), Run(" ", 1), Run("b", 1)>>,
     <<Run("a", MAX_PROMPT_LENGTH)>>,
     <<Run("a", MAX_PROMPT_LENGTH), Run("b", 1), Run("\n", 1)>>,
     <<Run(" ", 2)>>,
     <<Run("\n", 1), Run("a", MAX_PROMPT_LENGTH - 1), Run(" ", 1), Run("b", 5)>>}
StderrSamples == {<<>>, <<Run("e", 4)>>}
SpawnErrors == {"FileNotFoundError", "PermissionError"}

\* create_subprocess_exec / Popen returns a process
CliSpawnOk ==
    /\ cli.pc = "spawn"
    /\ cli' = [cli EXCEPT !.pc = "wait", !.proc = "running",
                          !.events = Append(@, "spawn"),
                          !.spawns = @ + 1, !.procs = @ + 1]
    /\ UNCHANGED <<spawned, gemini, ids, router, setup, parked, kkey, kverdict, hcall, flow, stats>>

\* create_subprocess_exec / Popen raises: no process exists
CliSpawnFails ==
    /\ cli.pc = "spawn"
    /\ \E err \in SpawnErrors :
          cli' = [cli EXCEPT !.pc = "done", !.env = err, !.spawns = @ + 1,
                             !.events = Append(@, "raise"),
                             !.result = React(cli.caller, SpawnFailed(err),
                                              cli.include_stderr).result]
    /\ UNCHANGED <<spawned, gemini, ids, router, setup, parked, kkey, kverdict, hcall, flow, stats>>

\* the process exits within the timeout: communicate returns, having waited
\* for it
CliExit ==
    /\ cli.pc = "wait"
    /\ \E rc \in {0, 1}, out \in StdoutSamples, errtext \in StderrSamples :
          LET r == React(cli.caller, Exited(rc, out, errtext), cli.include_stderr)
          IN  cli' = [cli EXCEPT !.pc = "done", !.proc = "reaped",
                                 !.env = IF rc = 0 THEN "exit0" ELSE "nonzero",
                                 !.out = out,
                                 !.events = @ \o <<"exit", r.result.kind>>,
                                 !.result = r.result]
    /\ UNCHANGED <<spawned, gemini, ids, router, setup, parked, kkey, kverdict, hcall, flow, stats>>

\* the bounded wait times out: the code's timeout clause runs up to its
\* first await (the reaping communicate) or to its raise
CliTimeout ==
    /\ cli.pc = "wait"
    /\ LET r == React(cli.caller, TimedOut, cli.include_stderr)
       IN  IF r.kill
           THEN cli' = [cli EXCEPT !.pc = "reap", !.proc = "zombie",
                                   !.env = "timeout",
                                   !.events = @ \o <<"timeout", "kill">>,
                                   !.pending = r.result]
           ELSE cli' = [cli EXCEPT !.pc = "done", !.env = "timeout",
                                   !.events = @ \o <<"timeout", "raise">>,
                                   !.result = r.result]
    /\ UNCHANGED <<spawned, gemini, ids, router, setup, parked, kkey, kverdict, hcall, flow, stats>>

\* the communicate / wait after the kill returns, then the raise
CliReap ==
    /\ cli.pc = "reap"
    /\ cli' = [cli EXCEPT !.pc = "done", !.proc = "reaped",
                          !.events = @ \o <<"reap", "raise">>,
                          !.result = cli.pending, !.pending = NoResult]
    /\ UNCHANGED <<spawned, gemini, ids, router, setup, parked, kkey, kverdict, hcall, flow, stats>>

(***************************************************************************)
(* More on texts: concatenation keeps a text in normal form (no empty run, *)
(* no two neighbouring runs of one character), so that equal texts are     *)
(* equal sequences.                                                        *)
(***************************************************************************)
\* a + b, of texts in normal form
Cat(a, b) ==
    IF a = <<>> THEN b
    ELSE IF b = <<>> THEN a
    ELSE IF a[Len(a)].c = b[1].c
         THEN SubSeq(a, 1, Len(a) - 1) \o <<Run(b[1].c, a[Len(a)].n + b[1].n)>>
              \o Tail(b)
    ELSE a \o b

\* the normal form of a sequence of runs, by halves
RECURSIVE Normalize(_)
Normalize(s) ==
    IF s = <<>> THEN <<>>
    ELSE IF Len(s) = 1 THEN (IF s[1].n = 0 THEN <<>> ELSE s)
    ELSE LET mid == Len(s) \div 2
         IN  Cat(Normalize(SubSeq(s, 1, mid)), Normalize(SubSeq(s, mid + 1, Len(s))))

\* the text of a tuple of characters
Chars(cs) == Normalize([i \in 1..Len(cs) |-> Run(cs[i], 1)])

\* s.replace(ch, '')
Remove(s, ch) == Normalize(SelectSeq(s, LAMBDA r : r.c # ch))

\* s[-k:]
RECURSIVE TakeLast(_, _)
TakeLast(s, k) ==
    IF s = <<>> \/ k <= 0 THEN <<>>
    ELSE LET last == s[Len(s)]
         IN  IF last.n <= k
             THEN TakeLast(SubSeq(s, 1, Len(s) - 1), k - last.n) \o <<last>>
             ELSE <<Run(last.c, k)>>

\* s.endswith(suffix)
EndsWith(s, suffix) ==
    StrLen(s) >= StrLen(suffix) /\ TakeLast(s, StrLen(suffix)) = suffix

\* s[k:]
RECURSIVE Drop(_, _)
Drop(s, k) ==
    IF s = <<>> \/ k <= 0 THEN s
    ELSE IF Head(s).n <= k THEN Drop(Tail(s), k - Head(s).n)
    ELSE <<Run(Head(s).c, Head(s).n - k)>> \o Tail(s)

\* s.startswith(prefix)
StartsWith(s, prefix) ==
    StrLen(s) >= StrLen(prefix) /\ Truncate(s, StrLen(prefix)) = prefix

NUL == "\\x00"
LitSystem == Chars(<<"S", "y", "s", "t", "e", "m", ":", " ">>)
LitHuman == Chars(<<"H", "u", "m", "a", "n", ":", " ">>)
LitAssistant == Chars(<<"A", "s", "s", "i", "s", "t", "a", "n", "t", ":">>)
LitNewline == Chars(<<"\n">>)
LitBlankLine == Chars(<<"\n", "\n">>)
LitSpace == Chars(<<" ">>)
LitUser == Chars(<<"U", "s", "e", "r", ":", " ">>)
LitModel == Chars(<<"M", "o", "d", "e", "l", ":", " ">>)

\* sep.join(parts[lo..hi]), by halves
RECURSIVE JoinRange(_, _, _, _)
JoinRange(sep, parts, lo, hi) ==
    IF lo > hi THEN <<>>
    ELSE IF lo = hi THEN parts[lo]
    ELSE LET mid == (lo + hi) \div 2
         IN  Cat(Cat(JoinRange(sep, parts, lo, mid), sep),
                 JoinRange(sep, parts, mid + 1, hi))

\* sep.join(parts)
Join(sep, parts) == JoinRange(sep, parts, 1, Len(parts))

\* the concatenation of the sequences ss[lo..hi], by halves
RECURSIVE Flatten(_, _, _)
Flatten(ss, lo, hi) ==
    IF lo > hi THEN <<>>
    ELSE IF lo = hi THEN ss[lo]
    ELSE LET mid == (lo + hi) \div 2
         IN  Flatten(ss, lo, mid) \o Flatten(ss, mid + 1, hi)

(***************************************************************************)
(* Names: a model identifier or an error type is the sequence of its       *)
(* words, "claude-3-sonnet-20240229" being <<"claude", "3", "sonnet",      *)
(* "20240229">>; `needle in name` is containment of a run of words.        *)
(***************************************************************************)
Contains(name, needle) ==
    \E i \in 0..(Len(name) - Len(needle)) :
        SubSeq(name, i + 1, i + Len(needle)) = needle

\* str.lower of one word
LowerWord(w) ==
    CASE w = "SONNET" -> "sonnet"
      [] w = "Opus" -> "opus"
      [] w = "DaVinci" -> "davinci"
      [] w = "API.OpenAI.com" -> "api.openai.com"
      [] w = "OpenAI" -> "openai"
      [] w = "V" -> "v"
      [] w = "M" -> "m"
      [] w = "E" -> "e"
      [] w = "S" -> "s"
      [] w = "A" -> "a"
      [] w = "G" -> "g"
      [] OTHER -> w

\* name.lower()
Lower(name) == [i \in 1..Len(name) |-> LowerWord(name[i])]

\* a list as runs of equal items: [m |-> item, n |-> how many]
Items(m, k) == [m |-> m, n |-> k]

\* len(list)
ListLen(items) == SumRuns(items, 1, Len(items))

\* the items one by one
Expand(items) ==
    [i \in 1..ListLen(items) |->
        items[CHOOSE j \in 1..Len(items) :
                 SumRuns(items, 1, j - 1) < i /\ i <= SumRuns(items, 1, j)].m]

\* one message of a messages array: an object with role and content, or not
\* an object
Msg(role, content) == [t |-> "dict", role |-> role, content |-> content]
NotAMsg == [t |-> "str", role |-> "", content |-> JAbsent]

\* one part of a content list: an object {"type": type, ...} whose text (for
\* a part that is not text, whose payload) is text, or a bare string
Part(type, text) == [t |-> "dict", type |-> type, text |-> text]
StrPart(text) == [t |-> "str", type |-> "", text |-> text]

\* "[Image content not supported in Claude Code mode]"
LitImagePlaceholder ==
    Chars(<<
          "[", "I", "m", "a", "g", "e", " ", "c", "o", "n", "t", "e",
          "n", "t", " ", "n", "o", "t", " ", "s", "u", "p", "p", "o",
          "r", "t", "e", "d", " ", "i", "n", " ", "C", "l", "a", "u",
          "d", "e", " ", "C", "o", "d", "e", " ", "m", "o", "d", "e",
          "]">>)

\* len(str(parts)) of a content list whose objects have two keys of four
\* letters and whose texts hold no quote and no control character
RECURSIVE ContentReprLen(_)
ContentReprLen(parts) ==
    LET one(part) == IF part.t = "dict"
                     THEN 24 + Len(part.type) + StrLen(part.text)
                     ELSE 2 + StrLen(part.text)
    IN  IF parts = <<>> THEN 2
        ELSE IF Len(parts) = 1 THEN 2 + one(parts[1])
        ELSE one(parts[1]) + 2 + ContentReprLen(Tail(parts))

(***************************************************************************)
(* Request validation and prompt formatting of the proxy handlers          *)
(***************************************************************************)
MAX_MESSAGE_COUNT == 100
MAX_MESSAGE_LENGTH == 50000
\* the message length limit taken for the token limit
MaxTokensLimitOfLength == MAX_MESSAGE_LENGTH
MaxTokensLimit == 100000
DefaultMaxTokens == 1024

NameSonnet3 == <<"claude", "3", "sonnet", "20240229">>

VALID_MODELS ==
    {<<"claude", "3", "opus", "20240229">>,
     NameSonnet3,
     <<"claude", "3", "haiku", "20240307">>,
     <<"claude", "3", "5", "sonnet", "20241022">>,
     <<"claude", "3", "5", "haiku", "20241022">>,
     <<"claude", "2", ".1">>,
     <<"claude", "2", ".0">>,
     <<"claude", "instant", "1", ".2">>}

CODEX_VALID_MODELS == {<<"code", "davinci", "002">>, <<"code", "cushman", "001">>}

\* ClaudeCodeProxyHandler._validate_messages: the first violation, or "ok"
RECURSIVE validate_each_message(_)
validate_each_message(items) ==
    IF items = <<>> THEN "ok"
    ELSE LET msg == Head(items).m
         IN  IF Head(items).n = 0 THEN validate_each_message(Tail(items))
             ELSE IF msg.t # "dict" THEN "must be an object"
             ELSE IF msg.role \notin {"user", "assistant", "system"}
                  THEN "invalid role"
             ELSE IF msg.content.kind \in {"absent", "null"} THEN "missing content"
             ELSE IF (IF msg.content.kind = "list"
                      THEN ContentReprLen(msg.content.s)
                      ELSE StrLen(msg.content.s)) > MAX_MESSAGE_LENGTH
                  THEN "content too long"
             ELSE validate_each_message(Tail(items))

validate_messages(messages) ==
    IF messages.kind # "list" THEN "must be an array"
    ELSE IF ListLen(messages.s) = 0 THEN "cannot be empty"
    ELSE IF ListLen(messages.s) > MAX_MESSAGE_COUNT THEN "too many"
    ELSE validate_each_message(messages.s)

\* _validate_model of a handler: "valid", "invalid", or "raise" when the
\* value is of a type the checks cannot take (model in SET of a list,
\* model.lower() of a number)
validate_model_with(model, valid, known_types) ==
    IF ~Truthy(model) THEN "valid"
    ELSE IF model.kind # "str" THEN "raise"
    ELSE IF model.s \in valid THEN "valid"
    ELSE IF \E k \in known_types : Contains(Lower(model.s), k) THEN "valid"
    ELSE "invalid"

\* ClaudeCodeProxyHandler._validate_model
ClaudeCodeProxyHandler_validate_model(model) ==
    validate_model_with(model, VALID_MODELS,
        {<<"opus">>, <<"sonnet">>, <<"haiku">>, <<"claude", "2">>,
         <<"claude", "instant">>})

\* CodexProxyHandler._validate_model
CodexProxyHandler_validate_model(model) ==
    validate_model_with(model, CODEX_VALID_MODELS, {<<"davinci">>, <<"cushman">>})

\* text_parts of a content list in ClaudeCodeProxyHandler's formatter
text_parts_of(parts) ==
    LET kept(part) ==
            IF part.t # "dict" THEN <<part.text>>
            ELSE IF part.type = "text"
                 THEN IF part.text # <<>> THEN <<part.text>> ELSE <<>>
            ELSE IF part.type = "image" THEN <<LitImagePlaceholder>>
            ELSE <<>>
    IN  Flatten([i \in 1..Len(parts) |-> kept(parts[i])], 1, Len(parts))

\* the block of one message in _format_messages_for_claude, <<>> for none
format_message(msg) ==
    LET flat == IF msg.content.kind = "list"
                THEN Join(LitSpace, text_parts_of(msg.content.s))
                ELSE msg.content.s
        content == Strip(Remove(flat, NUL))
    IN  CASE msg.role = "user" -> <<Cat(LitHuman, content)>>
          [] msg.role = "assistant" ->
                <<Cat(Cat(LitAssistant, LitSpace), content)>>
          [] msg.role = "system" /\ content # <<>> -> <<Cat(LitSystem, content)>>
          [] OTHER -> <<>>

\* the blocks of the messages, in order
format_blocks(msgs) ==
    Flatten([i \in 1..Len(msgs) |-> format_message(msgs[i])], 1, Len(msgs))

\* a formatter that appends the assistant cue to an empty prompt as well
format_messages_always_cue(messages, system) ==
    LET system_clean == Strip(Remove(system.s, NUL))
        system_parts ==
            IF Truthy(system) /\ system_clean # <<>>
            THEN <<Cat(Cat(LitSystem, system_clean), LitNewline)>>
            ELSE <<>>
        full_prompt ==
            Join(LitBlankLine, system_parts \o format_blocks(Expand(messages.s)))
    IN  IF ~EndsWith(Strip(full_prompt), LitAssistant)
        THEN Cat(Cat(full_prompt, LitBlankLine), LitAssistant)
        ELSE full_prompt

\* ClaudeCodeProxyHandler._format_messages_for_claude
format_messages_for_claude(messages, system) ==
    LET system_clean == Strip(Remove(system.s, NUL))
        system_parts ==
            IF Truthy(system) /\ system_clean # <<>>
            THEN <<Cat(Cat(LitSystem, system_clean), LitNewline)>>
            ELSE <<>>
        full_prompt ==
            Join(LitBlankLine, system_parts \o format_blocks(Expand(messages.s)))
    IN  IF full_prompt # <<>> /\ ~EndsWith(Strip(full_prompt), LitAssistant)
        THEN Cat(Cat(full_prompt, LitBlankLine), LitAssistant)
        ELSE full_prompt

\* text_parts of a content list in ClaudeCodeClient's formatter
ClaudeCodeClient_text_parts_of(parts) ==
    LET kept(part) ==
            IF part.t # "dict" THEN <<part.text>>
            ELSE IF part.type = "text" THEN <<part.text>>
            ELSE <<>>
    IN  Flatten([i \in 1..Len(parts) |-> kept(parts[i])], 1, Len(parts))

\* the block of one message in ClaudeCodeClient._format_messages_for_claude
ClaudeCodeClient_format_message(msg) ==
    LET content == IF msg.content.kind = "list"
                   THEN Join(LitSpace, ClaudeCodeClient_text_parts_of(msg.content.s))
                   ELSE msg.content.s
    IN  CASE msg.role = "user" -> <<Cat(LitHuman, content)>>
          [] msg.role = "assistant" ->
                <<Cat(Cat(LitAssistant, LitSpace), content)>>
          [] OTHER -> <<>>

\* ClaudeCodeClient._format_messages_for_claude (CodexClient inherits it)
ClaudeCodeClient_format_messages_for_claude(messages, system) ==
    LET msgs == Expand(messages.s)
        system_parts == IF Truthy(system)
                        THEN <<Cat(Cat(LitSystem, system.s), LitNewline)>>
                        ELSE <<>>
        blocks == Flatten([i \in 1..Len(msgs) |->
                              ClaudeCodeClient_format_message(msgs[i])],
                          1, Len(msgs))
        full_prompt == Join(LitBlankLine, system_parts \o blocks)
    IN  IF ~EndsWith(Strip(full_prompt), LitAssistant)
        THEN Cat(Cat(full_prompt, LitBlankLine), LitAssistant)
        ELSE full_prompt

\* a create_message that does not look at its stream argument
create_message_without_stream_check(caller, stream, messages, system) ==
    [CliEnter(caller, FALSE) EXCEPT
        !.stream = stream, !.messages = messages, !.system = system,
        !.prompt = ClaudeCodeClient_format_messages_for_claude(messages, system)]

\* create_message / acreate_message of a client up to the CLI call: "if
\* stream: raise NotImplementedError(...)" is its first statement, the
\* prompt is built next
create_message(caller, stream, messages, system) ==
    IF stream
    THEN [CliIdle EXCEPT !.caller = caller, !.pc = "done", !.stream = TRUE,
                         !.messages = messages, !.system = system,
                         !.result = Raised("NotImplementedError",
                                           "streaming not supported", "")]
    ELSE [CliEnter(caller, FALSE) EXCEPT
             !.messages = messages, !.system = system,
             !.prompt = ClaudeCodeClient_format_messages_for_claude(messages, system)]

(***************************************************************************)
(* Request bodies and response envelopes                                   *)
(***************************************************************************)
\* a JSON object with the keys the handlers read (JAbsent: key not given)
EmptyBody ==
    [t |-> "dict", messages |-> JAbsent, model |-> JAbsent, max_tokens |-> JAbsent,
     system |-> JAbsent, temperature |-> JAbsent, stream |-> JAbsent,
     prompt |-> JAbsent, max_tokens_to_sample |-> JAbsent,
     contents |-> JAbsent, generationConfig |-> JAbsent]

\* a JSON value that is not an object (a list)
NonObjectBody == [EmptyBody EXCEPT !.t = "list"]

NoEnvelope ==
    [kind |-> "none", type |-> <<>>, message |-> "", leak |-> "", code |-> 0,
     id_prefix |-> "", text |-> <<>>]

\* {"error": {"type": type, "message": message}}
ErrorEnvelope(type, message, leak) ==
    [NoEnvelope EXCEPT !.kind = "error", !.type = type, !.message = message,
                       !.leak = leak]

\* {"error": {"code": code, "message": message, "status": status}}
GeminiError(code, message, status) ==
    [NoEnvelope EXCEPT !.kind = "error", !.type = status, !.message = message,
                       !.code = code]

\* a success body: "message" (id, content[0].text), "completion" or
\* "candidates"
SuccessEnvelope(kind, id_prefix, text) ==
    [NoEnvelope EXCEPT !.kind = kind, !.id_prefix = id_prefix, !.text = text]

InvalidRequest(message) ==
    ErrorEnvelope(<<"invalid", "request", "error">>, message, "")

\* what the part of a handler before the CLI call yields: an envelope
\* returned at once, or the prompt for the CLI
ReturnNow(envelope) == [done |-> TRUE, envelope |-> envelope, prompt |-> <<>>]
CallCliWith(prompt) == [done |-> FALSE, envelope |-> NoEnvelope, prompt |-> prompt]

\* a _validate_model that accepts every model
validate_model_accept_all(handler, model) == "valid"

\* self._validate_model(model) of the handler in use
validate_model(handler, model) ==
    IF handler = "codex" THEN CodexProxyHandler_validate_model(model)
    ELSE ClaudeCodeProxyHandler_validate_model(model)

\* a handle_messages_request that checks max_tokens before the model
handle_messages_request_tokens_first(handler, request_data, method) ==
    LET messages == Get(request_data.messages, JList(<<>>))
        validation_error == validate_messages(messages)
        model == Get(request_data.model, JStr(NameSonnet3))
        max_tokens == Get(request_data.max_tokens, JInt(DefaultMaxTokens))
        system == Get(request_data.system, JNull)
        temperature == Get(request_data.temperature, JNull)
        stream == Get(request_data.stream, JBool(FALSE))
        prompt == format_messages_for_claude(messages, system)
    IN  IF method # "POST" THEN ReturnNow(InvalidRequest("method not allowed"))
        ELSE IF request_data.t # "dict"
             THEN ReturnNow(InvalidRequest("body must be an object"))
        ELSE IF validation_error # "ok"
             THEN ReturnNow(InvalidRequest(validation_error))
        ELSE IF ~IsInt(max_tokens) \/ max_tokens.i < 1 \/ max_tokens.i > MaxTokensLimit
             THEN ReturnNow(InvalidRequest("max_tokens out of range"))
        ELSE IF validate_model(handler, model) = "raise"
             THEN ReturnNow(ErrorEnvelope(<<"api", "error">>,
                                          "Failed to process request", ""))
        ELSE IF validate_model(handler, model) = "invalid"
             THEN ReturnNow(InvalidRequest("unsupported model"))
        ELSE IF Truthy(system)
                /\ (system.kind # "str" \/ StrLen(system.s) > MAX_MESSAGE_LENGTH)
             THEN ReturnNow(InvalidRequest("system prompt too long or invalid"))
        ELSE IF temperature.kind # "null"
                /\ (~IsNumber(temperature) \/ Tenths(temperature) < 0
                    \/ Tenths(temperature) > 20)
             THEN ReturnNow(InvalidRequest("temperature out of range"))
        ELSE IF Truthy(stream)
             THEN ReturnNow(InvalidRequest("streaming not supported"))
        ELSE IF StrLen(prompt) > MAX_PROMPT_LENGTH
             THEN ReturnNow(InvalidRequest("total prompt too long"))
        ELSE CallCliWith(prompt)

\* handle_messages_request up to the CLI call
handle_messages_request(handler, request_data, method) ==
    LET messages == Get(request_data.messages, JList(<<>>))
        validation_error == validate_messages(messages)
        model == Get(request_data.model, JStr(NameSonnet3))
        max_tokens == Get(request_data.max_tokens, JInt(DefaultMaxTokens))
        system == Get(request_data.system, JNull)
        temperature == Get(request_data.temperature, JNull)
        stream == Get(request_data.stream, JBool(FALSE))
        prompt == format_messages_for_claude(messages, system)
    IN  IF method # "POST" THEN ReturnNow(InvalidRequest("method not allowed"))
        ELSE IF request_data.t # "dict"
             THEN ReturnNow(InvalidRequest("body must be an object"))
        ELSE IF validation_error # "ok"
             THEN ReturnNow(InvalidRequest(validation_error))
        ELSE IF validate_model(handler, model) = "raise"
             THEN ReturnNow(ErrorEnvelope(<<"api", "error">>,
                                          "Failed to process request", ""))
        ELSE IF validate_model(handler, model) = "invalid"
             THEN ReturnNow(InvalidRequest("unsupported model"))
        ELSE IF ~IsInt(max_tokens) \/ max_tokens.i < 1 \/ max_tokens.i > MaxTokensLimit
             THEN ReturnNow(InvalidRequest("max_tokens out of range"))
        ELSE IF Truthy(system)
                /\ (system.kind # "str" \/ StrLen(system.s) > MAX_MESSAGE_LENGTH)
             THEN ReturnNow(InvalidRequest("system prompt too long or invalid"))
        ELSE IF temperature.kind # "null"
                /\ (~IsNumber(temperature) \/ Tenths(temperature) < 0
                    \/ Tenths(temperature) > 20)
             THEN ReturnNow(InvalidRequest("temperature out of range"))
        ELSE IF Truthy(stream)
             THEN ReturnNow(InvalidRequest("streaming not supported"))
        ELSE IF StrLen(prompt) > MAX_PROMPT_LENGTH
             THEN ReturnNow(InvalidRequest("total prompt too long"))
        ELSE CallCliWith(prompt)

\* handle_complete_request up to the CLI call
handle_complete_request(handler, request_data, method) ==
    LET prompt == Get(request_data.prompt, JStr(<<>>))
        model == Get(request_data.model, JStr(NameSonnet3))
        max_tokens == Get(request_data.max_tokens_to_sample, JInt(DefaultMaxTokens))
        stream == Get(request_data.stream, JBool(FALSE))
    IN  IF method # "POST" THEN ReturnNow(InvalidRequest("method not allowed"))
        ELSE IF request_data.t # "dict"
             THEN ReturnNow(InvalidRequest("body must be an object"))
        ELSE IF prompt.kind # "str" THEN ReturnNow(InvalidRequest("prompt must be a string"))
        ELSE IF StrLen(prompt.s) > MAX_PROMPT_LENGTH
             THEN ReturnNow(InvalidRequest("prompt too long"))
        ELSE IF validate_model(handler, model) = "raise"
             THEN ReturnNow(ErrorEnvelope(<<"api", "error">>,
                                          "Failed to process request", ""))
        ELSE IF validate_model(handler, model) = "invalid"
             THEN ReturnNow(InvalidRequest("unsupported model"))
        ELSE IF ~IsInt(max_tokens) \/ max_tokens.i < 1 \/ max_tokens.i > MaxTokensLimit
             THEN ReturnNow(InvalidRequest("max_tokens_to_sample out of range"))
        ELSE IF Truthy(stream)
             THEN ReturnNow(InvalidRequest("streaming not supported"))
        ELSE IF prompt.s # <<>> /\ ~EndsWith(Strip(prompt.s), LitAssistant)
             THEN CallCliWith(Cat(Cat(prompt.s, LitBlankLine), LitAssistant))
        ELSE CallCliWith(prompt.s)

\* the except clauses of handle_messages_request and handle_complete_request,
\* and their success body
handle_request_result(endpoint, r) ==
    CASE r.kind = "return" ->
            IF endpoint = "messages" THEN SuccessEnvelope("message", "msg_", r.text)
            ELSE SuccessEnvelope("completion", "", r.text)
      [] r.exc = "CLINotFoundError" ->
            ErrorEnvelope(<<"not", "found", "error">>, r.msg, r.leak)
      [] r.exc = "CLITimeoutError" ->
            ErrorEnvelope(<<"timeout", "error">>, r.msg, r.leak)
      [] r.exc = "CLIError" -> ErrorEnvelope(<<"api", "error">>, r.msg, r.leak)
      [] OTHER -> ErrorEnvelope(<<"api", "error">>, "Failed to process request", "")

(***************************************************************************)
(* The Gemini handler                                                      *)
(***************************************************************************)
\* one item of contents: an object with role and parts (the texts of its
\* text parts), or not an object
Content(role, parts) == [t |-> "dict", role |-> role, parts |-> parts]
NotAContent == [t |-> "str", role |-> "", parts |-> <<>>]

\* len(str(parts)) of a list of {"text": ...} parts
RECURSIVE PartsReprLen(_)
PartsReprLen(parts) ==
    IF parts = <<>> THEN 2
    ELSE IF Len(parts) = 1 THEN 2 + 12 + StrLen(parts[1])
    ELSE 12 + StrLen(parts[1]) + 2 + PartsReprLen(Tail(parts))

\* GeminiProxyHandler._validate_contents
RECURSIVE validate_each_content(_)
validate_each_content(items) ==
    IF items = <<>> THEN "ok"
    ELSE LET content == Head(items).m
         IN  IF Head(items).n = 0 THEN validate_each_content(Tail(items))
             ELSE IF content.t # "dict" THEN "must be an object"
             ELSE IF content.parts = <<>> THEN "missing parts"
             ELSE IF PartsReprLen(content.parts) > MAX_MESSAGE_LENGTH THEN "too large"
             ELSE validate_each_content(Tail(items))

validate_contents(contents) ==
    IF contents.kind # "list" THEN "must be a list"
    ELSE IF ListLen(contents.s) > MAX_MESSAGE_COUNT THEN "too many"
    ELSE validate_each_content(contents.s)

\* the block of one content item in _format_contents_for_gemini
format_content(content) ==
    LET text_content == Join(<<>>, content.parts)
    IN  CASE content.role = "user" -> Cat(LitUser, text_content)
          [] content.role = "model" -> Cat(LitModel, text_content)
          [] OTHER -> Cat(Chars(<<content.role, ":", " ">>), text_content)

\* GeminiProxyHandler._format_contents_for_gemini
format_contents_for_gemini(contents) ==
    LET items == Expand(contents.s)
    IN  Join(LitBlankLine, [i \in 1..Len(items) |-> format_content(items[i])])

GeminiInternal == GeminiError(500, "Internal proxy error", <<"INTERNAL">>)
GeminiInvalid(message) == GeminiError(400, message, <<"INVALID", "ARGUMENT">>)

\* handle_generate_content_request up to the CLI call.  generationConfig is
\* JDict(<<maxOutputTokens>>) when it is an object.
handle_generate_content_request(request_data, method) ==
    LET contents == Get(request_data.contents, JList(<<>>))
        error == validate_contents(contents)
        generation_config == Get(request_data.generationConfig, JDict(<<JAbsent>>))
        max_output_tokens == Get(generation_config.s[1], JInt(0))
        prompt == format_contents_for_gemini(contents)
    IN  IF method # "POST"
        THEN ReturnNow(GeminiError(405, "method not allowed",
                                   <<"METHOD", "NOT", "ALLOWED">>))
        ELSE IF request_data.t # "dict" THEN ReturnNow(GeminiInternal)
        ELSE IF error # "ok" THEN ReturnNow(GeminiInvalid(error))
        ELSE IF generation_config.kind # "dict" THEN ReturnNow(GeminiInternal)
        ELSE IF ~IsNumber(max_output_tokens) THEN ReturnNow(GeminiInternal)
        ELSE IF Tenths(max_output_tokens) > 10 * MaxTokensLimit
             THEN ReturnNow(GeminiInvalid("maxOutputTokens too large"))
        ELSE IF StrLen(prompt) > MAX_PROMPT_LENGTH
             THEN ReturnNow(GeminiInvalid("Prompt too long"))
        ELSE CallCliWith(prompt)

\* the except clauses of handle_generate_content_request, and its success body
handle_generate_content_result(r) ==
    CASE r.kind = "return" -> SuccessEnvelope("candidates", "", r.text)
      [] r.exc = "TimeoutError" ->
            GeminiError(504, "Request timed out", <<"DEADLINE", "EXCEEDED">>)
      [] OTHER -> GeminiInternal

(***************************************************************************)
(* Idle values of the handler call, the flow and the statistics            *)
(***************************************************************************)
\* the handler frame: pc is idle, cli (awaiting the CLI call) or done
HIdle ==
    [pc |-> "idle", handler |-> "none", endpoint |-> "none", method |-> "",
     body |-> EmptyBody, prompt |-> <<>>, envelope |-> NoEnvelope]
\* flow.request.content: its length in bytes, what json.loads makes of it
\* (none: no content; object; list; malformed: JSONDecodeError; deep: nested
\* beyond the recursion limit, RecursionError) and the object parsed
NoContent == [len |-> 0, json |-> "none", data |-> EmptyBody]
NoRequest ==
    [host |-> "", method |-> "", path |-> <<>>, x_api_key |-> NoKey,
     authorization |-> NoKey, content |-> NoContent]
\* flow.response: None, or a response made by the addon (origin addon; via
\* says which statement made it) or received from upstream
NoResponse ==
    [set |-> FALSE, status |-> 0, origin |-> "none", via |-> "none",
     body |-> NoEnvelope]
\* the flow in hand: pc is idle, request (about to enter the request hook),
\* handler (the hook awaits a handler), answered (the hook set
\* flow.response), upstream (the hook left the request to go upstream),
\* ignored (not a recognized host), replied (upstream has answered); n
\* counts the flows so far
FlowIdle ==
    [pc |-> "idle", n |-> 0, request |-> NoRequest, response |-> NoResponse]
StatsInit ==
    [total_requests |-> 0, claude_code_routed |-> 0, codex_routed |-> 0,
     anthropic_forwarded |-> 0, openai_forwarded |-> 0, errors |-> 0,
     blocked_requests |-> 0]

\* self.stats[counter] += 1 with the value not stored
increment_not_stored(s, counter) == s

\* self.stats[counter] += 1
increment(s, counter) == [s EXCEPT ![counter] = @ + 1]

\* no other flow is in flight
NoneParked == [flow |-> FlowIdle, hcall |-> HIdle, cli |-> CliIdle]

(***************************************************************************)
(* The request bodies tried: a well-formed body of the endpoint with at    *)
(* most MaxDeviations of its keys replaced by one of the values below.     *)
(***************************************************************************)
MaxDeviations == 1

TextHi == Chars(<<"h", "i">>)
UserHi == Msg("user", JStr(TextHi))
LongText(k) == <<Run("a", k)>>

\* messages whose content is a list of parts
PartsMessages ==
    LET a == <<Run("a", 1)>>
        b == <<Run("b", 1)>>
        d == <<Run("d", 3)>>
    IN  {Msg("user", JList(<<Part("text", a), Part("image", d), Part("text", b)>>)),
         Msg("user", JList(<<Part("text", a), Part("tool_use", d), Part("text", b)>>)),
         Msg("assistant", JList(<<Part("image", d)>>)),
         Msg("user", JList(<<StrPart(a), Part("text", b), Part("text", <<>>)>>))}

\* the messages given to a client
ClientMessagesSamples ==
    {JList(<<Items(UserHi, 1)>>)} \cup {JList(<<Items(m, 1)>>) : m \in PartsMessages}

MessagesSamples ==
    {JList(<<Items(m, 1)>>) : m \in PartsMessages} \cup
    {JAbsent,
     JStr(TextHi),
     JList(<<>>),
     JList(<<Items(UserHi, MAX_MESSAGE_COUNT)>>),
     JList(<<Items(UserHi, MAX_MESSAGE_COUNT + 1)>>),
     JList(<<Items(UserHi, 1), Items(NotAMsg, 1)>>),
     JList(<<Items(Msg("tool", JStr(TextHi)), 1)>>),
     JList(<<Items(Msg("user", JNull), 1)>>),
     JList(<<Items(Msg("user", JStr(LongText(MAX_MESSAGE_LENGTH + 1))), 1)>>),
     JList(<<Items(Msg("user", JStr(LongText(MAX_MESSAGE_LENGTH))), 2)>>),
     JList(<<Items(UserHi, 1), Items(Msg("assistant", JStr(<<>>)), 1)>>),
     JList(<<Items(Msg("system", JStr(TextHi)), 1), Items(UserHi, 1)>>),
     JList(<<Items(Msg("system", JStr(<<>>)), 1)>>),
     JList(<<Items(Msg("assistant", JStr(TextHi)), 1), Items(UserHi, 2),
             Items(Msg("system", JStr(<<Run(" ", 1)>>)), 1)>>)}

ModelSamples ==
    {JAbsent, JNull,
     JStr(NameSonnet3),
     JStr(<<"my", "SONNET", "v2">>),
     JStr(<<"gpt", "4">>),
     JStr(<<"code", "davinci", "002">>),
     JInt(5)}

MaxTokensSamples ==
    {JAbsent, JInt(0), JInt(1), JInt(MaxTokensLimit), JInt(MaxTokensLimit + 1),
     JStr(TextHi), JBool(TRUE), JFloat(15)}

SystemSamples ==
    {JAbsent, JStr(TextHi), JStr(LongText(MAX_MESSAGE_LENGTH + 1)), JInt(5),
     JStr(<<Run(" ", 2)>>), JStr(<<Run(NUL, 1), Run("a", 1)>>)}

TemperatureSamples == {JAbsent, JInt(0), JInt(2), JFloat(21), JInt(-1), JStr(TextHi)}

StreamSamples == {JAbsent, JBool(TRUE), JBool(FALSE)}

PromptSamples ==
    {JAbsent, JStr(TextHi), JInt(5), JStr(LongText(MAX_PROMPT_LENGTH)),
     JStr(LongText(MAX_PROMPT_LENGTH + 1)),
     JStr(Cat(Cat(LitHuman, TextHi), Cat(LitBlankLine, LitAssistant)))}

ContentsSamples ==
    {JAbsent,
     JStr(TextHi),
     JList(<<>>),
     JList(<<Items(Content("user", <<TextHi>>), MAX_MESSAGE_COUNT)>>),
     JList(<<Items(Content("user", <<TextHi>>), 1)>>),
     JList(<<Items(Content("user", <<TextHi>>), 1),
             Items(Content("model", <<TextHi, TextHi>>), 1)>>),
     JList(<<Items(Content("user", <<TextHi>>), MAX_MESSAGE_COUNT + 1)>>),
     JList(<<Items(NotAContent, 1)>>),
     JList(<<Items(Content("user", <<>>), 1)>>),
     JList(<<Items(Content("user", <<LongText(MAX_MESSAGE_LENGTH)>>), 1)>>)}

GenerationConfigSamples ==
    {JAbsent, JStr(TextHi), JDict(<<JAbsent>>), JDict(<<JInt(MaxTokensLimit)>>),
     JDict(<<JInt(MaxTokensLimit + 1)>>), JDict(<<JStr(TextHi)>>)}

\* the model a well-formed request names for a backend
BaseModel(handler) ==
    IF handler = "codex" THEN JStr(<<"code", "davinci", "002">>) ELSE JStr(NameSonnet3)

BaseBody(handler, endpoint) ==
    CASE endpoint = "messages" ->
            [EmptyBody EXCEPT !.messages = JList(<<Items(UserHi, 1)>>),
                              !.model = BaseModel(handler), !.max_tokens = JInt(50)]
      [] endpoint = "complete" ->
            [EmptyBody EXCEPT !.prompt = JStr(TextHi), !.model = BaseModel(handler),
                              !.max_tokens_to_sample = JInt(50)]
      [] OTHER ->
            [EmptyBody EXCEPT !.contents = JList(<<Items(Content("user", <<TextHi>>), 1)>>)]

\* the keys an endpoint reads, with the values tried for each
FieldSamples(endpoint) ==
    CASE endpoint = "messages" ->
            [messages |-> MessagesSamples, model |-> ModelSamples,
             max_tokens |-> MaxTokensSamples, system |-> SystemSamples,
             temperature |-> TemperatureSamples, stream |-> StreamSamples]
      [] endpoint = "complete" ->
            [prompt |-> PromptSamples, model |-> ModelSamples,
             max_tokens_to_sample |-> MaxTokensSamples, stream |-> StreamSamples]
      [] OTHER ->
            [contents |-> ContentsSamples, generationConfig |-> GenerationConfigSamples]

\* the bodies that differ from base in at most k keys
RECURSIVE Deviate(_, _, _)
Deviate(base, samples, k) ==
    IF k = 0 THEN {base}
    ELSE LET fewer == Deviate(base, samples, k - 1)
         IN  fewer \cup
             UNION {{[b EXCEPT ![f] = v] : v \in samples[f]} :
                    b \in fewer, f \in DOMAIN samples}

\* messages bodies that break any number of the rules at once: each key has
\* its well-formed value or one that breaks its rule; two messages of the
\* greatest length each break only the rule on the length of the whole prompt
SeveralViolations(handler) ==
    LET base == BaseBody(handler, "messages")
    IN  {[base EXCEPT !.messages = messages, !.model = model,
                      !.max_tokens = max_tokens, !.system = system,
                      !.temperature = temperature, !.stream = stream] :
         messages \in {base.messages, JList(<<>>),
                       JList(<<Items(Msg("user", JStr(LongText(MAX_MESSAGE_LENGTH))),
                                     2)>>)},
         model \in {base.model, JStr(<<"gpt", "4">>), JInt(5)},
         max_tokens \in {base.max_tokens, JInt(0)},
         system \in {JAbsent, JInt(5)},
         temperature \in {JAbsent, JFloat(21)},
         stream \in {JAbsent, JBool(TRUE)}}

\* the bodies tried, each also with stream set to true
Bodies(handler, endpoint) ==
    LET deviating == Deviate(BaseBody(handler, endpoint), FieldSamples(endpoint),
                             MaxDeviations)
    IN  deviating \cup {[b EXCEPT !.stream = JBool(TRUE)] : b \in deviating}
        \cup {NonObjectBody}
        \cup (IF endpoint = "messages" THEN SeveralViolations(handler) ELSE {})

Methods == {"POST", "GET"}

(***************************************************************************)
(* A handler's request method as two steps: up to the CLI call, and from   *)
(* the CLI call's end to the return.                                       *)
(***************************************************************************)
HandlerCli(handler) ==
    CASE handler = "claude" -> "ClaudeCodeProxyHandler._call_claude_cli_async"
      [] handler = "codex" -> "CodexProxyHandler._call_claude_cli_async"
      [] OTHER -> "GeminiProxyHandler._call_gemini_cli_async"

\* the handler method of an endpoint, up to the CLI call
HandlerBegin(handler, endpoint, request_data, method) ==
    CASE endpoint = "messages" -> handle_messages_request(handler, request_data, method)
      [] endpoint = "complete" -> handle_complete_request(handler, request_data, method)
      [] OTHER -> handle_generate_content_request(request_data, method)

\* the handler method of an endpoint, from the end of the CLI call
HandlerEnd(handler, endpoint, r) ==
    IF handler = "gemini" THEN handle_generate_content_result(r)
    ELSE handle_request_result(endpoint, r)

\* the handler frame whose first step yielded b
HandlerFrame(handler, endpoint, request_data, method, b) ==
    [pc |-> IF b.done THEN "done" ELSE "cli", handler |-> handler,
     endpoint |-> endpoint, method |-> method, body |-> request_data,
     prompt |-> b.prompt, envelope |-> b.envelope]

\* the handler frame after the first step
HEnter(handler, endpoint, request_data, method) ==
    HandlerFrame(handler, endpoint, request_data, method,
                 HandlerBegin(handler, endpoint, request_data, method))

(***************************************************************************)
(* The interception addon, proxy_server.AIInterceptor.  A host is a        *)
(* string, a path the sequence of its characters, a header value a text.   *)
(***************************************************************************)
MAX_REQUEST_SIZE == 10 * 1024 * 1024
MaxHeaderLength == 500
ALLOWED_METHODS == {"GET", "POST", "OPTIONS"}
default_backend == "claude"

PathV1 == <<"/", "v", "1">>
PathMessages == PathV1 \o <<"/", "m", "e", "s", "s", "a", "g", "e", "s">>
PathComplete == PathV1 \o <<"/", "c", "o", "m", "p", "l", "e", "t", "e">>
PathModels == PathV1 \o <<"/", "m", "o", "d", "e", "l", "s">>
PathCompletions ==
    PathV1 \o <<"/", "c", "o", "m", "p", "l", "e", "t", "i", "o", "n", "s">>
PathChatCompletions ==
    PathV1 \o <<"/", "c", "h", "a", "t", "/", "c", "o", "m", "p", "l", "e", "t",
                "i", "o", "n", "s">>
LitBearer == Chars(<<"B", "e", "a", "r", "e", "r", " ">>)

\* ALLOWED_PATHS_REGEX.match(path), the pattern being
\* ^/v1/(messages|complete|models)/?.*$ : one of the three prefixes, then
\* no newline but a last one
ALLOWED_PATHS_REGEX_match(path) ==
    \E prefix \in {PathMessages, PathComplete, PathModels} :
        /\ Len(path) >= Len(prefix)
        /\ SubSeq(path, 1, Len(prefix)) = prefix
        /\ \A i \in (Len(prefix) + 1)..(Len(path) - 1) : path[i] # "\n"

\* a host test that takes every host for an OpenAI host
is_openai_request_any_host(request) == TRUE

\* AIInterceptor._is_anthropic_request
is_anthropic_request(request) ==
    LowerWord(request.host) \in {"api.anthropic.com", "anthropic.com"}

\* AIInterceptor._is_openai_request
is_openai_request(request) ==
    LowerWord(request.host) \in {"api.openai.com", "openai.com"}

\* a request validation without the path allow-list
validate_request_without_path_check(request) ==
    IF request.method \notin ALLOWED_METHODS THEN <<"method", "not", "allowed">>
    ELSE IF request.content.len > MAX_REQUEST_SIZE THEN <<"request", "too", "large">>
    ELSE <<>>

\* AIInterceptor._validate_request: the type of the error, <<>> for None
validate_request(request) ==
    IF request.method \notin ALLOWED_METHODS THEN <<"method", "not", "allowed">>
    ELSE IF ~ALLOWED_PATHS_REGEX_match(request.path) THEN <<"not", "found">>
    ELSE IF request.content.len > MAX_REQUEST_SIZE THEN <<"request", "too", "large">>
    ELSE <<>>

\* the credential AIInterceptor.request takes from the headers
extract_api_key(request) ==
    LET x_api_key == request.x_api_key.s
        auth_header == request.authorization.s
    IN  IF x_api_key # <<>> /\ StrLen(x_api_key) < MaxHeaderLength THEN x_api_key
        ELSE IF /\ auth_header # <<>>
                /\ StrLen(auth_header) < MaxHeaderLength
                /\ StartsWith(auth_header, LitBearer)
             THEN Drop(auth_header, 7)
        ELSE <<>>

\* a routing that sends every request to the Claude backend
route_all_to_claude(api_key, is_anthropic, is_openai) == "claude"

\* a routing that forwards every request
route_all_upstream(api_key, is_anthropic, is_openai) ==
    IF is_openai THEN "openai_forwarded" ELSE "anthropic_forwarded"

\* the routing decision of AIInterceptor.request: the backend that answers,
\* or the counter of the upstream the request is left to
route(api_key, is_anthropic, is_openai) ==
    IF is_all_nines(api_key)
    THEN IF is_openai \/ (~is_anthropic /\ default_backend = "codex")
         THEN "codex" ELSE "claude"
    ELSE IF is_openai THEN "openai_forwarded" ELSE "anthropic_forwarded"

\* http.Response.make(status, json.dumps(body), ...)
MakeResponse(status, via, body) ==
    [set |-> TRUE, status |-> status, origin |-> "addon", via |-> via,
     body |-> body]

\* a status mapping without the not_found branch
status_code_without_not_found(response_data) ==
    IF response_data.kind # "error" THEN 200
    ELSE IF \/ Contains(response_data.type, <<"invalid">>)
            \/ Contains(response_data.type, <<"request">>) THEN 400
    ELSE IF Contains(response_data.type, <<"unauthorized">>) THEN 401
    ELSE 500

\* "Determine status code based on response" of _handle_claude_code_request
\* and _handle_codex_request
status_code(response_data) ==
    IF response_data.kind # "error" THEN 200
    ELSE IF Contains(response_data.type, <<"not", "found">>) THEN 404
    ELSE IF \/ Contains(response_data.type, <<"invalid">>)
            \/ Contains(response_data.type, <<"request">>) THEN 400
    ELSE IF Contains(response_data.type, <<"unauthorized">>) THEN 401
    ELSE 500

\* the endpoint a path is dispatched to
endpoint_of(request) ==
    LET path == Lower(request.path)
    IN  IF Contains(path, PathMessages) THEN "messages"
        ELSE IF Contains(path, PathComplete) THEN "complete"
        ELSE IF Contains(path, PathModels) /\ request.method = "GET" THEN "models"
        ELSE "none"

\* the await of a handler method whose frame is h after its first step: the
\* handler has returned and the response is made, or the CLI call is awaited
handler_awaited(h) ==
    IF h.pc = "done"
    THEN [answered |-> TRUE, raised |-> FALSE, hcall |-> h,
          response |-> MakeResponse(status_code(h.envelope), "result", h.envelope)]
    ELSE [answered |-> FALSE, raised |-> FALSE, hcall |-> h, response |-> NoResponse]

\* _handle_claude_code_request / _handle_codex_request up to the end of the
\* first step of the handler: the response if there is one by then, whether
\* an except clause made it, and the handler frame
handle_local_request(handler, request) ==
    LET content == request.content
        request_data == IF content.len = 0 THEN EmptyBody
                        ELSE IF content.json = "list" THEN NonObjectBody
                        ELSE content.data
        endpoint == endpoint_of(request)
        Answer(status, via, body) ==
            [answered |-> TRUE, raised |-> via = "except",
             response |-> MakeResponse(status, via, body), hcall |-> HIdle]
    IN  IF content.len > MAX_REQUEST_SIZE
        THEN Answer(413, "parse", ErrorEnvelope(<<"request", "too", "large">>,
                                                "Request body too large", ""))
        ELSE IF content.len > 0 /\ content.json = "malformed"
        THEN Answer(400, "parse", ErrorEnvelope(<<"invalid", "request">>,
                                                "Invalid JSON in request body", ""))
        ELSE IF content.len > 0 /\ content.json = "deep"
        THEN \* json.loads raises RecursionError: except Exception
             Answer(500, "except", ErrorEnvelope(<<"internal", "error">>,
                                                 "An internal error occurred", ""))
        ELSE IF request_data.t # "dict"
        THEN Answer(400, "parse", ErrorEnvelope(<<"invalid", "request">>,
                                                "Request body must be a JSON object", ""))
        ELSE IF endpoint = "models"
        THEN LET body == SuccessEnvelope("models", "", <<>>)
             IN  Answer(status_code(body), "result", body)
        ELSE IF endpoint = "none"
        THEN LET body == ErrorEnvelope(<<"not", "found", "error">>,
                                       "Endpoint not supported", "")
             IN  Answer(status_code(body), "result", body)
        ELSE handler_awaited(HEnter(handler, endpoint, request_data, request.method))

(***************************************************************************)
(* The flows tried                                                         *)
(***************************************************************************)
MaxFlows == 1

Hosts == {"api.anthropic.com", "API.OpenAI.com", "openai.com", "example.com"}
FlowMethods == {"POST", "GET", "DELETE"}
Paths ==
    {PathMessages, PathComplete, PathModels,
     PathComplete \o <<"/", "x">>, PathCompletions,
     PathV1 \o <<"/", "c", "h", "a", "t">>, PathChatCompletions,
     <<"/", "V", "1", "/", "M", "E", "S", "S", "A", "G", "E", "S">>}

KeyLocal == <<Run("x", 2), Run("-", 1), Run("9", 9)>>
KeyReal == <<Run("x", 2), Run("-", 1), Run("x", 9)>>
\* the pairs of x-api-key and authorization headers
Credentials ==
    {<<NoKey, NoKey>>,
     <<Some(KeyLocal), NoKey>>,
     <<Some(KeyReal), NoKey>>,
     <<NoKey, Some(Cat(LitBearer, KeyLocal))>>,
     <<NoKey, Some(Cat(LitBearer, KeyReal))>>,
     <<NoKey, Some(Cat(Chars(<<"b", "e", "a", "r", "e", "r", " ">>), KeyLocal))>>,
     <<Some(KeyReal), Some(Cat(LitBearer, KeyLocal))>>,
     <<Some(<<Run("9", MaxHeaderLength)>>), Some(Cat(LitBearer, KeyLocal))>>,
     <<Some(<<Run("9", MaxHeaderLength - 1)>>), Some(Cat(LitBearer, KeyLocal))>>}

Contents ==
    {NoContent,
     [len |-> 16, json |-> "malformed", data |-> EmptyBody],
     [len |-> 2, json |-> "list", data |-> EmptyBody],
     [len |-> 200000, json |-> "deep", data |-> EmptyBody],
     [len |-> MAX_REQUEST_SIZE + 1, json |-> "object", data |-> EmptyBody],
     [len |-> MAX_REQUEST_SIZE, json |-> "object",
      data |-> BaseBody("claude", "messages")]}
    \cup {[len |-> 90, json |-> "object", data |-> BaseBody(handler, endpoint)] :
            handler \in {"claude", "codex"}, endpoint \in {"messages", "complete"}}

\* the statuses tried of an upstream answer: success, not modified, refused
UpstreamStatuses == {200, 304, 401}

(***************************************************************************)
(* The router library: anthropic_router.py and openai_router.py.  An       *)
(* argument of messages.create is a JSON value or NOT_GIVEN; a keyword of  *)
(* the upstream SDK call is a JSON value, NOT_GIVEN, or Unsent when the    *)
(* call does not pass it.                                                  *)
(***************************************************************************)
NOT_GIVEN == [kind |-> "not_given", i |-> 0, s |-> <<>>]
Unsent == [kind |-> "unsent", i |-> 0, s |-> <<>>]

\* x is not NOT_GIVEN
Given(x) == x.kind # "not_given"

\* the arguments of messages.create that the routers treat differently;
\* extra stands for a keyword caught by **kwargs
NoArgs ==
    [messages |-> JList(<<>>), system |-> NOT_GIVEN, stream |-> NOT_GIVEN,
     stop_sequences |-> NOT_GIVEN, temperature |-> NOT_GIVEN,
     top_k |-> NOT_GIVEN, top_p |-> NOT_GIVEN, metadata |-> NOT_GIVEN,
     extra |-> Unsent]

\* the keywords of the upstream SDK call
NoSent ==
    [api |-> "none", messages |-> <<>>, system |-> Unsent, stream |-> Unsent,
     stop_sequences |-> Unsent, stop |-> Unsent, temperature |-> Unsent,
     top_k |-> Unsent, top_p |-> Unsent, metadata |-> Unsent, extra |-> Unsent]

\* how a messages.create call ends: a Message, or an exception
NoOutcome == [kind |-> "none", exc |-> "", id |-> "", text |-> <<>>, input_tokens |-> 0]
MessageOf(id, text, input_tokens) ==
    [kind |-> "message", exc |-> "", id |-> id, text |-> text,
     input_tokens |-> input_tokens]
RaisedOf(exc) == [NoOutcome EXCEPT !.kind = "raise", !.exc = exc]

\* no router has been constructed
NoRouter ==
    [class |-> "none", provider |-> "", api_key |-> <<>>, local |-> FALSE,
     client |-> "none", calls |-> 0, pc |-> "idle", args |-> NoArgs,
     sent |-> NoSent, got |-> "none", chunks |-> <<>>, outcome |-> NoOutcome]

AnthropicRouters == {"AnthropicRouter", "AsyncAnthropicRouter"}
OpenAIRouters == {"OpenAIRouter", "AsyncOpenAIRouter"}

\* the upstream SDK client a router class constructs
SdkClient(class) ==
    CASE class = "AnthropicRouter" -> "Anthropic"
      [] class = "AsyncAnthropicRouter" -> "AsyncAnthropic"
      [] class = "OpenAIRouter" -> "OpenAI"
      [] OTHER -> "AsyncOpenAI"

\* AnthropicRouter.__init__ / AsyncAnthropicRouter.__init__; env is the
\* ANTHROPIC_API_KEY variable, <<>> when unset
AnthropicRouter_init(class, api_key, env) ==
    LET self_api_key == IF api_key.some /\ api_key.s # <<>> THEN api_key.s ELSE env
        is_claude_code_mode == check_claude_code_mode(self_api_key)
    IN  [NoRouter EXCEPT !.class = class, !.api_key = self_api_key,
                         !.local = is_claude_code_mode,
                         !.client = IF is_claude_code_mode THEN "ClaudeCodeClient"
                                    ELSE SdkClient(class)]

\* a constructor that installs the SDK client whatever the key
OpenAIRouter_init_sdk_only(class, api_key, env) ==
    LET self_api_key == IF api_key.some /\ api_key.s # <<>> THEN api_key.s ELSE env
    IN  [NoRouter EXCEPT !.class = class, !.api_key = self_api_key,
                         !.local = is_all_nines_api_key(Some(self_api_key)),
                         !.client = SdkClient(class)]

\* OpenAIRouter.__init__ / AsyncOpenAIRouter.__init__; env is OPENAI_API_KEY
OpenAIRouter_init(class, api_key, env) ==
    LET self_api_key == IF api_key.some /\ api_key.s # <<>> THEN api_key.s ELSE env
        is_codex_mode == is_all_nines_api_key(Some(self_api_key))
    IN  [NoRouter EXCEPT !.class = class, !.api_key = self_api_key,
                         !.local = is_codex_mode,
                         !.client = IF is_codex_mode THEN "CodexClient"
                                    ELSE SdkClient(class)]

\* create_client(api_key, provider, default_provider="claude"); provider ""
\* is None, env_default the AI_ROUTER_DEFAULT variable, "" when unset
create_client(api_key, provider, env_default, env) ==
    LET selected == LowerWord(IF provider # "" THEN provider
                              ELSE IF env_default # "" THEN env_default
                              ELSE "claude")
    IN  IF selected \in {"codex", "openai"}
        THEN [OpenAIRouter_init("OpenAIRouter", api_key, env) EXCEPT
                 !.provider = selected]
        ELSE [AnthropicRouter_init("AnthropicRouter", api_key, env) EXCEPT
                 !.provider = selected]

\* the characters of the type of a content part
TypeChars(type) ==
    CASE type = "image" -> Chars(<<"i", "m", "a", "g", "e">>)
      [] type = "tool_use" -> Chars(<<"t", "o", "o", "l", "_", "u", "s", "e">>)
      [] type = "text" -> Chars(<<"t", "e", "x", "t">>)
      [] OTHER -> Chars(<<"u", "n", "s", "u", "p", "p", "o", "r", "t", "e", "d">>)

\* openai_router._normalize_content of one part of a content list
normalize_part(part) ==
    IF part.t = "dict"
    THEN IF part.type = "text" THEN part.text
         ELSE Cat(Cat(Chars(<<"[">>), TypeChars(part.type)),
                  Chars(<<" ", "c", "o", "n", "t", "e", "n", "t", "]">>))
    ELSE part.text

\* openai_router._normalize_content of a message content that is a string
\* or a list of parts
normalize_content(content) ==
    IF content.kind = "list"
    THEN LET parts == [i \in 1..Len(content.s) |-> Strip(normalize_part(content.s[i]))]
             kept == Flatten([i \in 1..Len(parts) |->
                                 IF parts[i] # <<>> THEN <<parts[i]>> ELSE <<>>],
                             1, Len(parts))
         IN  Join(LitSpace, kept)
    ELSE content.s

\* the messages list built for the OpenAI chat-completions call
openai_messages(messages, system) ==
    LET msgs == Expand(messages.s)
    IN  (IF Given(system) /\ Truthy(system)
         THEN <<Msg("system", system)>> ELSE <<>>)
        \o [i \in 1..Len(msgs) |->
               Msg(msgs[i].role, JStr(normalize_content(msgs[i].content)))]

\* the name the CLI frame gives to the client method a router class calls
ClientMethod(class) ==
    CASE class = "AnthropicRouter" -> "ClaudeCodeClient.create_message"
      [] class = "AsyncAnthropicRouter" -> "ClaudeCodeClient.acreate_message"
      [] class = "OpenAIRouter" -> "CodexClient.create_message"
      [] OTHER -> "CodexClient.acreate_message"

\* x if x is not NOT_GIVEN else default
GivenOr(x, default) == IF Given(x) THEN x ELSE default

\* MessagesRouter.create / AsyncMessagesRouter.create of anthropic_router up
\* to the call it makes: the router frame and the CLI frame
AnthropicMessagesRouter_create(rt, args, cliframe) ==
    IF rt.local
    THEN [router |-> [rt EXCEPT !.pc = "local", !.args = args],
          cli |-> create_message(ClientMethod(rt.class),
                                 Truthy(GivenOr(args.stream, JBool(FALSE))),
                                 args.messages, GivenOr(args.system, JNull))]
    ELSE [router |-> [rt EXCEPT !.pc = "upstream", !.args = args,
                         !.sent = [api |-> "messages.create",
                                   messages |-> Expand(args.messages.s),
                                   system |-> args.system,
                                   stream |-> args.stream,
                                   stop_sequences |-> args.stop_sequences,
                                   stop |-> Unsent,
                                   temperature |-> args.temperature,
                                   top_k |-> args.top_k, top_p |-> args.top_p,
                                   metadata |-> args.metadata,
                                   extra |-> args.extra]],
          cli |-> cliframe]

\* MessagesRouter.create / AsyncMessagesRouter.create of openai_router up to
\* the call it makes
OpenAIMessagesRouter_create(rt, args, cliframe) ==
    IF rt.local
    THEN IF Given(args.stream) /\ Truthy(args.stream)
         THEN [router |-> [rt EXCEPT !.pc = "done", !.args = args,
                              !.outcome = RaisedOf("NotImplementedError")],
               cli |-> cliframe]
         ELSE [router |-> [rt EXCEPT !.pc = "local", !.args = args],
               cli |-> create_message(ClientMethod(rt.class), FALSE,
                                      args.messages, GivenOr(args.system, JNull))]
    ELSE [router |-> [rt EXCEPT !.pc = "upstream", !.args = args,
                         !.sent = [NoSent EXCEPT
                                      !.api = "chat.completions.create",
                                      !.messages = openai_messages(args.messages,
                                                                   args.system),
                                      !.temperature = GivenOr(args.temperature, JNull),
                                      !.stop = GivenOr(args.stop_sequences, JNull),
                                      !.stream = GivenOr(args.stream, JBool(FALSE)),
                                      !.extra = args.extra]],
          cli |-> cliframe]

\* one event of an OpenAI stream: whether it has choices, the content of
\* the delta of its first choice (JNull for none), its id and the
\* prompt_tokens of its usage (0 for no usage)
Chunk(has_choices, content, id, prompt_tokens) ==
    [has_choices |-> has_choices, content |-> content, id |-> id,
     prompt_tokens |-> prompt_tokens]

\* the last usage given by the events lo..hi, 0 for none
RECURSIVE LastUsage(_, _)
LastUsage(events, hi) ==
    IF hi = 0 THEN 0
    ELSE IF events[hi].prompt_tokens # 0 THEN events[hi].prompt_tokens
    ELSE LastUsage(events, hi - 1)

\* the Message that openai_router builds from the events of a stream
openai_stream_message(events) ==
    LET text_parts == Flatten([i \in 1..Len(events) |->
                                  IF events[i].has_choices /\ Truthy(events[i].content)
                                  THEN <<events[i].content.s>> ELSE <<>>],
                              1, Len(events))
        text == Join(<<>>, text_parts)
        response_id == IF events = <<>> THEN "" ELSE events[1].id
    IN  MessageOf(response_id, text, LastUsage(events, Len(events)))


(***************************************************************************)
(* setup_proxy.generate_certificates and the mitmdump child it spawns.     *)
(*   pc     the statement the function is at                               *)
(*   proc   none, running, exited (dead, not yet waited for), reaped       *)
(*   ca     the CA certificate file exists                                 *)
(*   clock  time.monotonic() since the deadline was set, in seconds        *)
(*   calls  the calls made on the Popen object and the TimeoutExpired      *)
(*          they raised, in order                                          *)
(***************************************************************************)
DeadlineSeconds == 10
\* how long a time.sleep(0.1) and the statements around it may take
SleepSamples == {1, 4, DeadlineSeconds}

SetupIdle ==
    [pc |-> "idle", proc |-> "none", ca |-> FALSE, clock |-> 0, success |-> FALSE,
     proc_returncode |-> "none", calls |-> <<>>, report |-> "none"]

\* Popen.poll(): waits for a dead child without blocking
Poll(s) == IF s.proc = "exited" THEN [s EXCEPT !.proc = "reaped"] ELSE s

\* the while loop, one statement that looks at the clock, the file system or
\* the child at a time: the deadline test and ca_cert.exists(), then
\* proc.poll(), then time.sleep(0.1) that takes slept seconds
loop_step(s, slept) ==
    CASE s.pc = "loop" ->
            IF s.clock >= DeadlineSeconds THEN [s EXCEPT !.pc = "after_loop"]
            ELSE IF s.ca THEN [s EXCEPT !.pc = "after_loop", !.success = TRUE]
            ELSE [s EXCEPT !.pc = "loop_poll"]
      [] s.pc = "loop_poll" ->
            IF s.proc # "running" THEN [Poll(s) EXCEPT !.pc = "after_loop"]
            ELSE [s EXCEPT !.pc = "loop_sleep"]
      [] OTHER -> [s EXCEPT !.pc = "loop", !.clock = s.clock + slept]

\* the statements after the loop: proc.poll(), then ca_cert.exists() and the
\* messages printed
after_loop(s) ==
    IF s.pc = "after_loop"
    THEN [Poll(s) EXCEPT !.pc = "report",
                         !.proc_returncode = IF s.proc = "running" THEN "none"
                                             ELSE "exited"]
    ELSE [s EXCEPT !.pc = "finally",
                   !.report = IF s.success \/ s.ca THEN "generated"
                              ELSE IF s.proc_returncode = "exited"
                              THEN "mitmdump exited"
                              ELSE "timed out"]

\* a finally clause that leaves the child alone
finally_without_cleanup(s) == [s EXCEPT !.pc = "returned"]

\* the finally clause up to proc.terminate(): "if proc.poll() is None"
finally_poll(s) ==
    IF s.proc = "running"
    THEN [s EXCEPT !.pc = "wait", !.calls = Append(@, "terminate")]
    ELSE [Poll(s) EXCEPT !.pc = "returned"]

\* proc.wait(timeout=5) after terminate or kill; timed_out: the child is
\* still running when the timeout ends
wait_after(s, timed_out) ==
    IF ~timed_out
    THEN [s EXCEPT !.pc = "returned", !.proc = "reaped", !.calls = Append(@, "wait")]
    ELSE IF s.pc = "wait"
    THEN \* except subprocess.TimeoutExpired: proc.kill()
         [s EXCEPT !.pc = "wait_killed",
                   !.calls = @ \o <<"wait", "TimeoutExpired", "kill">>]
    ELSE \* the second wait is in no try block
         [s EXCEPT !.pc = "raised", !.calls = @ \o <<"wait", "TimeoutExpired">>]

\* messages.create of a router up to the call it makes
messages_create(rt, args, cliframe) ==
    IF rt.class \in AnthropicRouters
    THEN AnthropicMessagesRouter_create(rt, args, cliframe)
    ELSE OpenAIMessagesRouter_create(rt, args, cliframe)

\* what the upstream SDK call gives back: an exception, a response object
\* or a stream of events
UpstreamRaises == [kind |-> "raise", id |-> "", text |-> <<>>, events |-> <<>>]
UpstreamResponse(id, text) ==
    [kind |-> "response", id |-> id, text |-> text, events |-> <<>>]
UpstreamStream(events) ==
    [kind |-> "stream", id |-> "", text |-> <<>>, events |-> events]

\* messages.create of a router from the return of the upstream SDK call:
\* anthropic_router returns what the SDK returned, openai_router builds a
\* Message from the response or from the events of the stream
messages_create_upstream_result(rt, got) ==
    IF got.kind = "raise" THEN RaisedOf("APIError")
    ELSE IF rt.class \in AnthropicRouters THEN MessageOf(got.id, got.text, 0)
    ELSE IF Given(rt.args.stream) /\ Truthy(rt.args.stream)
    THEN openai_stream_message(got.events)
    ELSE MessageOf(got.id, got.text, 0)

\* messages.create of a router in local mode from the end of the client's
\* CLI call: the client's Message (its usage estimates left out) or its
\* exception
messages_create_local_result(cliframe) ==
    IF cliframe.result.kind = "return"
    THEN MessageOf(message_id_prefix(cliframe.caller), cliframe.result.text, 0)
    ELSE RaisedOf(cliframe.result.exc)

(***************************************************************************)
(* The command line of the CLI.  An argument is a name; cmd is the list of *)
(* arguments given to create_subprocess_exec or subprocess.run, and stdin  *)
(* the text written to the child's standard input.                         *)
(***************************************************************************)
NoneSpawned ==
    [caller |-> "none", via |-> "none", model |-> JNull, path |-> <<>>,
     cmd |-> <<>>, stdin |-> <<>>]

NoToken == <<>>
Entry(full_name, short_name) == [full_name |-> full_name, short_name |-> short_name]
ModelFlag(token) == IF token = NoToken THEN <<>> ELSE <<(<<"--model">>), token>>

\* model_map of ClaudeCodeProxyHandler._call_claude_cli_async, in dict order
ClaudeCodeProxyHandler_model_map ==
    <<Entry(<<"claude", "3", "opus", "20240229">>, <<"opus">>),
      Entry(<<"claude", "3", "sonnet", "20240229">>, <<"sonnet">>),
      Entry(<<"claude", "3", "haiku", "20240307">>, <<"haiku">>),
      Entry(<<"claude", "3", "5", "sonnet", "20241022">>, <<"sonnet">>),
      Entry(<<"claude", "3", "5", "haiku", "20241022">>, <<"haiku">>),
      Entry(<<"claude", "2", ".1">>, <<"claude", "2">>),
      Entry(<<"claude", "2", ".0">>, <<"claude", "2">>),
      Entry(<<"claude", "instant", "1", ".2">>, <<"claude", "instant">>)>>
ClaudeCodeProxyHandler_known_types ==
    <<(<<"opus">>), <<"sonnet">>, <<"haiku">>, <<"claude", "2">>,
      <<"claude", "instant">>>>

\* model_map of ClaudeCodeClient._call_claude_cli and .acreate_message
ClaudeCodeClient_model_map == SubSeq(ClaudeCodeProxyHandler_model_map, 1, 5)
ClaudeCodeClient_names == <<(<<"opus">>), <<"sonnet">>, <<"haiku">>>>

\* model_map of CodexProxyHandler and CodexClient
Codex_model_map ==
    <<Entry(<<"code", "davinci", "002">>, <<"davinci">>),
      Entry(<<"code", "cushman", "001">>, <<"cushman">>)>>
Codex_names == <<(<<"davinci">>), <<"cushman">>>>

\* for full_name, short_name in model_map.items():
\*     if full_name in model: ...; break
RECURSIVE table_lookup(_, _)
table_lookup(model_map, model) ==
    IF model_map = <<>> THEN NoToken
    ELSE IF Contains(model, Head(model_map).full_name)
         THEN Head(model_map).short_name
    ELSE table_lookup(Tail(model_map), model)

\* a scan in which the last keyword found wins
RECURSIVE keyword_scan_last(_, _)
keyword_scan_last(names, model_lower) ==
    IF names = <<>> THEN NoToken
    ELSE IF Contains(model_lower, names[Len(names)]) THEN names[Len(names)]
    ELSE keyword_scan_last(SubSeq(names, 1, Len(names) - 1), model_lower)

\* for known_type in [...]: if known_type in model_lower: ...; break
RECURSIVE keyword_scan(_, _)
keyword_scan(names, model_lower) ==
    IF names = <<>> THEN NoToken
    ELSE IF Contains(model_lower, Head(names)) THEN Head(names)
    ELSE keyword_scan(Tail(names), model_lower)

\* the `if model:` block of a handler's _call_claude_cli_async: the table,
\* then `if not short_name:` the keywords, then `if short_name:` the flag
handler_model_args(model_map, known_types, model) ==
    IF ~Truthy(model) THEN <<>>
    ELSE LET mapped == table_lookup(model_map, model.s)
             short_name == IF mapped # NoToken THEN mapped
                           ELSE keyword_scan(known_types, Lower(model.s))
         IN  ModelFlag(short_name)

\* the `if model:` block of ClaudeCodeClient: for ... else, with
\* any(name in model.lower() ...) and next(..., "sonnet")
ClaudeCodeClient_model_args(model) ==
    IF ~Truthy(model) THEN <<>>
    ELSE LET mapped == table_lookup(ClaudeCodeClient_model_map, model.s)
             found == keyword_scan(ClaudeCodeClient_names, Lower(model.s))
         IN  IF mapped # NoToken THEN ModelFlag(mapped)
             ELSE IF \E i \in 1..Len(ClaudeCodeClient_names) :
                        Contains(Lower(model.s), ClaudeCodeClient_names[i])
                  THEN ModelFlag(IF found # NoToken THEN found ELSE <<"sonnet">>)
             ELSE <<>>

\* the `if model:` block of CodexClient: for ... else: for ...: break
CodexClient_model_args(model) ==
    IF ~Truthy(model) THEN <<>>
    ELSE LET mapped == table_lookup(Codex_model_map, model.s)
         IN  IF mapped # NoToken THEN ModelFlag(mapped)
             ELSE ModelFlag(keyword_scan(Codex_names, Lower(model.s)))

\* s.split(sep)[0] and s.split(sep)[-1] of a list of pieces, sep one piece
RECURSIVE BeforeFirst(_, _)
BeforeFirst(s, sep) ==
    IF s = <<>> \/ Head(s) = sep THEN <<>>
    ELSE <<Head(s)>> \o BeforeFirst(Tail(s), sep)

RECURSIVE AfterLast(_, _)
AfterLast(s, sep) ==
    IF s = <<>> \/ s[Len(s)] = sep THEN <<>>
    ELSE AfterLast(SubSeq(s, 1, Len(s) - 1), sep) \o <<s[Len(s)]>>

RECURSIVE AfterFirst(_, _)
AfterFirst(s, sep) ==
    IF s = <<>> THEN <<>>
    ELSE IF Head(s) = sep THEN Tail(s)
    ELSE AfterFirst(Tail(s), sep)

\* the model that handle_generate_content_request takes from the path:
\* "gemini-pro", or path.split("models/")[1].split(":")[0]
GeminiDefaultModel == <<"gemini", "pro">>
gemini_model_of_path(path) ==
    IF \E i \in 1..Len(path) : path[i] = "models/"
    THEN BeforeFirst(BeforeFirst(AfterFirst(path, "models/"), "models/"), ":")
    ELSE GeminiDefaultModel

\* the `if model:` block of the Gemini functions: model.split('/')[-1]
gemini_model_args(model) ==
    IF ~Truthy(model) THEN <<>>
    ELSE <<(<<"--model">>), AfterLast(model.s, "/")>>

\* cmd of the function that spawns the CLI, for its model argument
command(caller, model) ==
    CASE caller \in {"ClaudeCodeProxyHandler._call_claude_cli_async"} ->
            <<(<<"claude">>), <<"--print">>>>
            \o handler_model_args(ClaudeCodeProxyHandler_model_map,
                                  ClaudeCodeProxyHandler_known_types, model)
      [] caller \in {"ClaudeCodeClient.create_message",
                     "ClaudeCodeClient.acreate_message"} ->
            <<(<<"claude">>), <<"--print">>>> \o ClaudeCodeClient_model_args(model)
      [] caller \in {"CodexProxyHandler._call_claude_cli_async"} ->
            <<(<<"codex">>), <<"--print">>>>
            \o handler_model_args(Codex_model_map, Codex_names, model)
      [] caller \in {"CodexClient.create_message", "CodexClient.acreate_message"} ->
            <<(<<"codex">>), <<"--print">>>> \o CodexClient_model_args(model)
      [] OTHER -> <<(<<"gemini">>)>> \o gemini_model_args(model)

(***************************************************************************)
(* gemini_router.py: the module keeps the configured key in a global; a    *)
(* GenerativeModel object takes its mode from that key when constructed.   *)
(*   configured  _configured_api_key (None before the first configure)     *)
(*   genai_configures  the calls of the real genai.configure               *)
(*   models      the objects made: local is _is_local_mode, key what the   *)
(*               global held at construction, genai_model whether          *)
(*               genai.GenerativeModel was built, genai_calls and          *)
(*               client_calls the calls passed to either side              *)
(*   pc          of the generate_content call: idle, local (in the         *)
(*               client's CLI call), upstream (in the real library), done  *)
(***************************************************************************)
NoGemini ==
    [configured |-> NoKey, configures |-> 0, genai_configures |-> 0,
     models |-> <<>>, pc |-> "idle", current |-> 0, calls |-> 0,
     outcome |-> "none"]

\* gemini_router._is_all_nines, of an Optional[str]
gemini_is_all_nines(api_key) ==
    IF ~api_key.some \/ api_key.s = <<>> THEN FALSE
    ELSE AllChars(api_key.s, "9")

\* configure(api_key): env is os.environ.get("GOOGLE_API_KEY")
configure(g, api_key, env) ==
    LET key == IF api_key.some /\ api_key.s # <<>> THEN api_key ELSE env
    IN  [g EXCEPT !.configured = key, !.configures = @ + 1,
                  !.genai_configures = IF gemini_is_all_nines(key) THEN @ ELSE @ + 1]

\* GenerativeModel(model_name)
GenerativeModel_init(g) ==
    LET is_local_mode == gemini_is_all_nines(g.configured)
    IN  [g EXCEPT !.models = Append(@, [local |-> is_local_mode,
                                        key |-> g.configured,
                                        genai_model |-> ~is_local_mode,
                                        genai_calls |-> 0, client_calls |-> 0])]

\* a mode test that classifies the key configured now
is_local_mode_now(g, i) == gemini_is_all_nines(g.configured)

\* self._is_local_mode of the object i
is_local_mode(g, i) == g.models[i].local

\* the client method an entry point calls
GeminiClientMethod(async) ==
    IF async THEN "GeminiClient._call_gemini_cli_async"
    ELSE "GeminiClient._call_gemini_cli"

\* generate_content / generate_content_async of the object i, to the call
\* it makes or to its raise
generate_content(g, i, async, stream, cliframe) ==
    IF is_local_mode(g, i)
    THEN IF stream
         THEN [gemini |-> [g EXCEPT !.pc = "done", !.current = i,
                                    !.outcome = "NotImplementedError"],
               cli |-> cliframe]
         ELSE [gemini |-> [g EXCEPT !.pc = "local", !.current = i,
                                    !.models[i].client_calls = @ + 1],
               cli |-> CliEnter(GeminiClientMethod(async), FALSE)]
    ELSE [gemini |-> [g EXCEPT !.pc = "upstream", !.current = i,
                               !.models[i].genai_calls = @ + 1],
          cli |-> cliframe]

(***************************************************************************)
(* SpecKey: one credential, classified by one of the classifiers           *)
(***************************************************************************)
InitKey ==
    /\ kkey \in {Some(s) : s \in KeyTexts} \cup {NoKey}
    /\ kverdict = NoVerdict
    /\ cli = CliIdle /\ hcall = HIdle /\ flow = FlowIdle /\ stats = StatsInit
    /\ parked = NoneParked
    /\ router = NoRouter /\ setup = SetupIdle
    /\ ids = NoIds /\ gemini = NoGemini /\ spawned = NoneSpawned

\* AIInterceptor.request always passes a str
ClassifyProxy ==
    /\ kverdict.by = "none" /\ kkey.some
    /\ kverdict' = [by |-> "proxy", key |-> kkey.s, v |-> is_all_nines(kkey.s)]
    /\ UNCHANGED <<spawned, gemini, ids, router, setup, parked, kkey, cli, hcall, flow, stats>>

ClassifyUtils ==
    /\ kverdict.by = "none"
    /\ kverdict' = [by |-> "utils", key |-> kkey.s, v |-> is_all_nines_api_key(kkey)]
    /\ UNCHANGED <<spawned, gemini, ids, router, setup, parked, kkey, cli, hcall, flow, stats>>

\* AnthropicRouter.__init__: self.api_key = api_key or os.environ.get(...)
ClassifyRouter ==
    /\ kverdict.by = "none"
    /\ \E env \in EnvKeys :
          LET api_key == IF kkey.some /\ kkey.s # <<>> THEN kkey.s ELSE env
          IN  kverdict' = [by |-> "router", key |-> api_key,
                           v |-> check_claude_code_mode(api_key)]
    /\ UNCHANGED <<spawned, gemini, ids, router, setup, parked, kkey, cli, hcall, flow, stats>>

\* gemini_router._is_all_nines(api_key)
ClassifyGemini ==
    /\ kverdict.by = "none"
    /\ kverdict' = [by |-> "gemini", key |-> kkey.s, v |-> gemini_is_all_nines(kkey)]
    /\ UNCHANGED <<spawned, gemini, ids, router, setup, parked, kkey, cli, hcall, flow, stats>>

NextKey == ClassifyProxy \/ ClassifyUtils \/ ClassifyRouter \/ ClassifyGemini

SpecKey == InitKey /\ [][NextKey]_vars

(***************************************************************************)
(* SpecLib: one direct call of a function that runs the CLI                *)
(***************************************************************************)
InitLib ==
    /\ kkey = NoKey /\ kverdict = NoVerdict
    /\ cli = CliIdle /\ hcall = HIdle /\ flow = FlowIdle /\ stats = StatsInit
    /\ parked = NoneParked
    /\ router = NoRouter /\ setup = SetupIdle
    /\ ids = NoIds /\ gemini = NoGemini /\ spawned = NoneSpawned

\* run_subprocess(cmd, input_text, name, include_stderr=...) and its async twin
CallRunner ==
    /\ cli.pc = "idle" /\ hcall.pc = "idle"
    /\ \E f \in Runners, inc \in BOOLEAN : cli' = CliEnter(f, inc)
    /\ UNCHANGED <<spawned, gemini, ids, router, setup, parked, kkey, kverdict, hcall, flow, stats>>

\* create_message(...) or acreate_message(...) of a client,
\* _call_*_cli_async(prompt) of a handler
CallCli ==
    /\ cli.pc = "idle" /\ hcall.pc = "idle"
    /\ \/ \E f \in Clients, stream \in BOOLEAN, messages \in ClientMessagesSamples,
             system \in {JNull, JStr(TextHi)} :
             cli' = create_message(f, stream, messages, system)
       \/ \E f \in HandlerCalls \cup GeminiClientCalls : cli' = CliEnter(f, FALSE)
    /\ UNCHANGED <<spawned, gemini, ids, router, setup, parked, kkey, kverdict, hcall, flow, stats>>

\* handle_messages_request / handle_complete_request of a backend handler
CallHandler ==
    /\ cli.pc = "idle" /\ hcall.pc = "idle"
    /\ \E handler \in {"claude", "codex"}, endpoint \in {"messages", "complete"},
          method \in Methods :
          \E body \in Bodies(handler, endpoint) :
             /\ hcall' = HEnter(handler, endpoint, body, method)
             /\ cli' = IF hcall'.pc = "cli"
                       THEN CliEnter(HandlerCli(handler), FALSE) ELSE cli
    /\ UNCHANGED <<spawned, gemini, ids, router, setup, parked, kkey, kverdict, flow, stats>>

\* handle_generate_content_request of the Gemini handler
CallGeminiHandler ==
    /\ cli.pc = "idle" /\ hcall.pc = "idle"
    /\ \E method \in Methods, body \in Bodies("gemini", "generate") :
          /\ hcall' = HEnter("gemini", "generate", body, method)
          /\ cli' = IF hcall'.pc = "cli"
                    THEN CliEnter(HandlerCli("gemini"), FALSE) ELSE cli
    /\ UNCHANGED <<spawned, gemini, ids, router, setup, parked, kkey, kverdict, flow, stats>>

\* the CLI call has ended: the handler returns its response body
HandlerReturn ==
    /\ hcall.pc = "cli" /\ cli.pc = "done" /\ flow.pc = "idle"
    /\ hcall' = [hcall EXCEPT !.pc = "done",
                              !.envelope = HandlerEnd(hcall.handler, hcall.endpoint,
                                                      cli.result)]
    /\ UNCHANGED <<spawned, gemini, ids, router, setup, parked, kkey, kverdict, cli, flow, stats>>

NextLib ==
    \/ CallRunner \/ CallCli \/ CallHandler \/ CallGeminiHandler \/ HandlerReturn
    \/ CliSpawnOk \/ CliSpawnFails \/ CliExit \/ CliTimeout \/ CliReap

SpecLib == InitLib /\ [][NextLib]_vars

(***************************************************************************)
(* Spec: the addon handling flows, one after another                       *)
(***************************************************************************)
Init ==
    /\ kkey = NoKey /\ kverdict = NoVerdict
    /\ cli = CliIdle /\ hcall = HIdle /\ flow = FlowIdle /\ stats = StatsInit
    /\ parked = NoneParked
    /\ router = NoRouter /\ setup = SetupIdle
    /\ ids = NoIds /\ gemini = NoGemini /\ spawned = NoneSpawned

\* mitmproxy has read a request from a client
FlowArrive ==
    /\ flow.pc = "idle" /\ flow.n < MaxFlows
    /\ \E host \in Hosts, method \in FlowMethods, path \in Paths,
          cred \in Credentials, content \in Contents :
          flow' = [pc |-> "request", n |-> flow.n + 1, response |-> NoResponse,
                   request |-> [host |-> host, method |-> method, path |-> path,
                                x_api_key |-> cred[1], authorization |-> cred[2],
                                content |-> content]]
    /\ UNCHANGED <<spawned, gemini, ids, router, setup, parked, kkey, kverdict, cli, hcall, stats>>

\* AIInterceptor.request, to its end or to the await of the CLI
Request ==
    /\ flow.pc = "request"
    /\ LET request == flow.request
           is_anthropic == is_anthropic_request(request)
           is_openai == is_openai_request(request)
           validation_error == validate_request(request)
           to == route(extract_api_key(request), is_anthropic, is_openai)
           counted == increment(stats, "total_requests")
       IN  IF ~(is_anthropic \/ is_openai)
           THEN /\ flow' = [flow EXCEPT !.pc = "ignored"]
                /\ UNCHANGED <<stats, hcall, cli>>
           ELSE IF validation_error # <<>>
           THEN /\ stats' = increment(counted, "blocked_requests")
                /\ flow' = [flow EXCEPT !.pc = "answered",
                               !.response = MakeResponse(400, "validation",
                                   ErrorEnvelope(validation_error, "", ""))]
                /\ UNCHANGED <<hcall, cli>>
           ELSE IF to \in {"openai_forwarded", "anthropic_forwarded"}
           THEN /\ stats' = increment(counted, to)
                /\ flow' = [flow EXCEPT !.pc = "upstream"]
                /\ UNCHANGED <<hcall, cli>>
           ELSE \E local \in {handle_local_request(to, request)} :
                /\ stats' = LET routed == increment(counted,
                                               IF to = "codex" THEN "codex_routed"
                                               ELSE "claude_code_routed")
                             IN  IF local.raised THEN increment(routed, "errors")
                                 ELSE routed
                /\ flow' = [flow EXCEPT
                               !.pc = IF local.answered THEN "answered" ELSE "handler",
                               !.response = local.response]
                /\ hcall' = local.hcall
                /\ cli' = IF local.answered THEN cli
                          ELSE CliEnter(HandlerCli(to), FALSE)
    /\ UNCHANGED <<spawned, gemini, ids, router, setup, parked, kkey, kverdict>>

\* the CLI call has ended: the handler returns, the hook maps its result to
\* a status and sets flow.response
RequestResume ==
    /\ flow.pc = "handler" /\ hcall.pc = "cli" /\ cli.pc = "done"
    /\ LET response_data == HandlerEnd(hcall.handler, hcall.endpoint, cli.result)
       IN  /\ hcall' = [hcall EXCEPT !.pc = "done", !.envelope = response_data]
           /\ flow' = [flow EXCEPT !.pc = "answered",
                          !.response = MakeResponse(status_code(response_data),
                                                    "result", response_data)]
    /\ UNCHANGED <<spawned, gemini, ids, router, setup, parked, kkey, kverdict, cli, stats>>

\* the request went upstream and the server has answered
ServerReply ==
    /\ flow.pc \in {"ignored", "upstream"}
    /\ \E status \in UpstreamStatuses :
          flow' = [flow EXCEPT !.pc = "replied",
                       !.response = [set |-> TRUE, status |-> status,
                                     origin |-> "upstream", via |-> "upstream",
                                     body |-> NoEnvelope]]
    /\ UNCHANGED <<spawned, gemini, ids, router, setup, parked, kkey, kverdict, cli, hcall, stats>>

\* AIInterceptor.response; the flow is over after it
Response ==
    /\ flow.pc \in {"answered", "replied"}
    /\ flow' = [FlowIdle EXCEPT !.n = flow.n]
    /\ cli' = CliIdle /\ hcall' = HIdle
    /\ stats' = IF /\ is_anthropic_request(flow.request)
                      \/ is_openai_request(flow.request)
                   /\ flow.response.set
                   /\ flow.response.status >= 400
                THEN increment(stats, "errors") ELSE stats
    /\ UNCHANGED <<spawned, gemini, ids, router, setup, parked, kkey, kverdict>>

Next ==
    \/ FlowArrive \/ Request \/ RequestResume \/ ServerReply \/ Response
    \/ CliSpawnOk \/ CliSpawnFails \/ CliExit \/ CliTimeout \/ CliReap

Spec == Init /\ [][Next]_vars

\* a request hook that awaits is resumed when what it awaits has ended; the
\* spawn call returns or raises, the bounded wait on the CLI ends (the
\* process exits or the timeout fires), and so does the reaping wait
SpecLive ==
    /\ Spec
    /\ WF_vars(RequestResume)
    /\ WF_vars(CliSpawnOk \/ CliSpawnFails \/ CliExit \/ CliTimeout \/ CliReap)

(***************************************************************************)
(* SpecConc: the addon handling flows concurrently.  mitmproxy runs the    *)
(* hooks as coroutines of one event loop: a hook runs until it awaits or   *)
(* returns, and at any such point the loop may run the hook of another     *)
(* flow.  The flow the loop is running is in flow, hcall and cli; the      *)
(* other flow in flight is in parked.                                      *)
(***************************************************************************)
MaxConcurrentFlows == 2

\* the requests of the concurrent flows, all to recognized hosts
ConcurrentRequests ==
    {[host |-> host, method |-> method, path |-> PathMessages,
      x_api_key |-> Some(key), authorization |-> NoKey,
      content |-> [len |-> 90, json |-> "object",
                   data |-> BaseBody(handler, "messages")]] :
        host \in {"api.anthropic.com", "API.OpenAI.com"},
        method \in {"POST", "DELETE"},
        key \in {KeyLocal, KeyReal},
        handler \in {"claude", "codex"}}

\* mitmproxy has read a request from a client while another flow is in flight
FlowArriveConcurrent ==
    /\ flow.pc = "idle" /\ flow.n < MaxConcurrentFlows
    /\ \E request \in ConcurrentRequests :
          flow' = [pc |-> "request", n |-> flow.n + 1, response |-> NoResponse,
                   request |-> request]
    /\ UNCHANGED <<spawned, gemini, ids, router, setup, parked, kkey, kverdict, cli, hcall, stats>>

\* the event loop leaves the flow it was running, at an await of its hook or
\* between its hooks, and runs the other flow
Switch ==
    /\ parked' = [flow |-> [flow EXCEPT !.n = 0], hcall |-> hcall, cli |-> cli]
    /\ flow' = [parked.flow EXCEPT !.n = flow.n]
    /\ hcall' = parked.hcall
    /\ cli' = parked.cli
    /\ UNCHANGED <<spawned, gemini, ids, router, setup, kkey, kverdict, stats>>

NextConc ==
    \/ FlowArriveConcurrent \/ Switch
    \/ Request \/ RequestResume \/ ServerReply \/ Response
    \/ CliSpawnOk \/ CliSpawnFails \/ CliExit \/ CliTimeout \/ CliReap

SpecConc == Init /\ [][NextConc]_vars

(***************************************************************************)
(* SpecCodex: _handle_codex_request called on a flow, as its tests call it *)
(***************************************************************************)
CodexFlowPaths == Paths

\* await interceptor._handle_codex_request(flow), to its end or to the await
\* of the CLI
HandleCodexRequest ==
    /\ flow.pc = "idle" /\ flow.n = 0
    /\ \E method \in FlowMethods, path \in CodexFlowPaths, content \in Contents :
          \E request \in {[host |-> "api.openai.com", method |-> method,
                           path |-> path, x_api_key |-> NoKey,
                           authorization |-> NoKey, content |-> content]} :
          \E local \in {handle_local_request("codex", request)} :
             /\ flow' = [pc |-> IF local.answered THEN "answered" ELSE "handler",
                         n |-> 1, response |-> local.response,
                         request |-> request]
             /\ hcall' = local.hcall
             /\ cli' = IF local.answered THEN cli
                       ELSE CliEnter(HandlerCli("codex"), FALSE)
             /\ stats' = IF local.raised THEN increment(stats, "errors") ELSE stats
    /\ UNCHANGED <<spawned, gemini, ids, router, setup, parked, kkey, kverdict>>

NextCodex ==
    \/ HandleCodexRequest \/ RequestResume
    \/ CliSpawnOk \/ CliSpawnFails \/ CliExit \/ CliTimeout \/ CliReap

SpecCodex == Init /\ [][NextCodex]_vars

(***************************************************************************)
(* SpecSetup: one call of generate_certificates, the child and the clock   *)
(***************************************************************************)
\* generate_certificates() is called; the CA certificate exists already or
\* not
SetupStart ==
    /\ setup.pc = "idle"
    /\ \E exists \in BOOLEAN :
          setup' = IF exists
                   THEN [setup EXCEPT !.pc = "returned", !.ca = TRUE,
                                      !.report = "already exists"]
                   ELSE [setup EXCEPT !.pc = "popen"]
    /\ UNCHANGED <<spawned, gemini, ids, router, parked, kkey, kverdict, cli, hcall, flow, stats>>

\* subprocess.Popen(['mitmdump', '--quiet'], ...) returns or raises
SetupPopen ==
    /\ setup.pc = "popen"
    /\ \/ setup' = [setup EXCEPT !.pc = "loop", !.proc = "running"]
       \/ setup' = [setup EXCEPT !.pc = "returned", !.report = "could not spawn"]
    /\ UNCHANGED <<spawned, gemini, ids, router, parked, kkey, kverdict, cli, hcall, flow, stats>>

\* a statement of the while loop
SetupLoop ==
    /\ setup.pc \in {"loop", "loop_poll", "loop_sleep"}
    /\ \E slept \in SleepSamples : setup' = loop_step(setup, slept)
    /\ UNCHANGED <<spawned, gemini, ids, router, parked, kkey, kverdict, cli, hcall, flow, stats>>

\* the statements between the loop and the finally clause
SetupAfterLoop ==
    /\ setup.pc \in {"after_loop", "report"}
    /\ setup' = after_loop(setup)
    /\ UNCHANGED <<spawned, gemini, ids, router, parked, kkey, kverdict, cli, hcall, flow, stats>>

\* the finally clause: the poll and the terminate
SetupFinally ==
    /\ setup.pc = "finally"
    /\ setup' = finally_poll(setup)
    /\ UNCHANGED <<spawned, gemini, ids, router, parked, kkey, kverdict, cli, hcall, flow, stats>>

\* proc.wait(timeout=5) ends: the child has exited, or the timeout is over
\* and the child still runs
SetupWait ==
    /\ setup.pc \in {"wait", "wait_killed"}
    /\ setup' = wait_after(setup, setup.proc = "running")
    /\ UNCHANGED <<spawned, gemini, ids, router, parked, kkey, kverdict, cli, hcall, flow, stats>>

\* mitmdump writes its CA certificate
ChildWritesCertificate ==
    /\ setup.proc = "running" /\ ~setup.ca
    /\ setup.pc \notin {"wait_killed", "raised", "returned"}
    /\ setup' = [setup EXCEPT !.ca = TRUE]
    /\ UNCHANGED <<spawned, gemini, ids, router, parked, kkey, kverdict, cli, hcall, flow, stats>>

\* mitmdump exits, by itself or because of a signal
ChildExits ==
    /\ setup.proc = "running" /\ setup.pc \notin {"raised", "returned"}
    /\ setup' = [setup EXCEPT !.proc = "exited"]
    /\ UNCHANGED <<spawned, gemini, ids, router, parked, kkey, kverdict, cli, hcall, flow, stats>>

NextSetup ==
    \/ SetupStart \/ SetupPopen \/ SetupLoop \/ SetupAfterLoop \/ SetupFinally
    \/ SetupWait \/ ChildWritesCertificate \/ ChildExits

SpecSetup == Init /\ [][NextSetup]_vars

(***************************************************************************)
(* SpecRouter: a router is constructed and its messages.create is called   *)
(***************************************************************************)
MaxRouterCalls == 2

\* the api_key arguments: None, "", all nines, nines after a prefix, a real
\* key, a key that ends with '-'
RouterKeys ==
    {NoKey, Some(<<>>), Some(<<Run("9", 12)>>),
     Some(<<Run("x", 2), Run("-", 1), Run("9", 12)>>),
     Some(<<Run("x", 4), Run("-", 1), Run("x", 3)>>),
     Some(<<Run("x", 2), Run("-", 1)>>)}
Providers == {"", "codex", "OpenAI", "claude", "gemini"}
RouterDefaults == {"", "codex"}

\* the arguments of messages.create: none of the optional ones, one of
\* them, all of them
ArgsSamples ==
    LET base == [NoArgs EXCEPT !.messages = JList(<<Items(UserHi, 1)>>)]
        parts == JList(<<Items(Msg("user", JList(<<Part("text", TextHi),
                                                    Part("image", <<Run("d", 3)>>),
                                                    Part("text", <<Run(" ", 1)>>)>>)),
                                 1)>>)
    IN  {base,
         [base EXCEPT !.messages = parts, !.system = JStr(TextHi)],
         [base EXCEPT !.stream = JBool(TRUE)],
         [base EXCEPT !.stream = JBool(FALSE)],
         [base EXCEPT !.stop_sequences = JList(<<Items(JStr(<<Run("E", 1)>>), 1)>>)],
         [base EXCEPT !.top_p = JFloat(9)],
         [base EXCEPT !.top_k = JInt(40), !.metadata = JDict(<<"foo">>)],
         [base EXCEPT !.temperature = JFloat(5), !.extra = JInt(1)],
         [base EXCEPT !.stream = JBool(TRUE), !.system = JStr(TextHi),
                      !.stop_sequences = JList(<<Items(JStr(<<Run("E", 1)>>), 1)>>),
                      !.top_p = JFloat(9), !.top_k = JInt(40),
                      !.metadata = JDict(<<"foo">>), !.temperature = JFloat(5)]}

\* the streams the OpenAI SDK may yield: no event, events with and without
\* content, an event without choices
ChunkSamples ==
    {<<>>,
     <<Chunk(TRUE, JStr(<<Run("h", 1)>>), "chunk1", 0),
       Chunk(TRUE, JStr(<<Run("i", 1)>>), "chunk2", 7)>>,
     <<Chunk(TRUE, JNull, "chunk1", 0)>>,
     <<Chunk(FALSE, JNull, "chunk1", 3), Chunk(TRUE, JStr(TextHi), "chunk2", 0)>>}

\* what the upstream SDK call may give back
UpstreamSamples ==
    {UpstreamRaises, UpstreamResponse("resp", TextHi)}
    \cup {UpstreamStream(events) : events \in ChunkSamples}

\* create_client(...), OpenAIRouter(...), AsyncAnthropicRouter(...) or
\* AsyncOpenAIRouter(...)
RouterConstruct ==
    /\ router.class = "none"
    /\ \E api_key \in RouterKeys, env \in EnvKeys :
          \/ \E provider \in Providers, env_default \in RouterDefaults :
                router' = create_client(api_key, provider, env_default, env)
          \/ router' = AnthropicRouter_init("AsyncAnthropicRouter", api_key, env)
          \/ \E class \in OpenAIRouters :
                router' = OpenAIRouter_init(class, api_key, env)
    /\ UNCHANGED <<spawned, gemini, ids, setup, parked, kkey, kverdict, cli, hcall, flow, stats>>

\* router.messages.create(...), to the call it makes or to its raise
RouterCreate ==
    /\ router.class # "none" /\ router.pc = "idle"
    /\ router.calls < MaxRouterCalls
    /\ \E args \in ArgsSamples :
          \E r \in {messages_create(router, args, cli)} :
             router' = r.router /\ cli' = r.cli
    /\ UNCHANGED <<spawned, gemini, ids, setup, parked, kkey, kverdict, hcall, flow, stats>>

\* the upstream SDK call returns or raises
RouterUpstreamReturns ==
    /\ router.pc = "upstream"
    /\ \E got \in UpstreamSamples :
          /\ got.kind = "stream" <=> Truthy(router.sent.stream)
          /\ router' = [router EXCEPT
                           !.pc = "done", !.got = got.kind, !.chunks = got.events,
                           !.outcome = messages_create_upstream_result(router, got)]
    /\ UNCHANGED <<spawned, gemini, ids, setup, parked, kkey, kverdict, cli, hcall, flow, stats>>

\* the client method returns or raises; a Message gets its id from the clock
RouterLocalReturns ==
    /\ router.pc = "local" /\ cli.pc = "done"
    /\ router' = [router EXCEPT !.pc = "done",
                                !.outcome = messages_create_local_result(cli)]
    /\ ids' = IF cli.result.kind = "return"
              THEN [ids EXCEPT !.issued = Append(@, message_id(cli.caller, ids.now))]
              ELSE ids
    /\ UNCHANGED <<spawned, gemini, setup, parked, kkey, kverdict, cli, hcall, flow, stats>>

\* time passes between two calls (only the instant at which a call makes
\* its Message matters)
ClockTick ==
    /\ ids.ticks < MaxTicks
    /\ router.class # "none" /\ router.pc = "idle" /\ router.local
    /\ \E ms \in TickSamples :
          ids' = [ids EXCEPT !.now = @ + ms, !.ticks = @ + 1]
    /\ UNCHANGED <<spawned, gemini, router, setup, parked, kkey, kverdict, cli, hcall, flow, stats>>

\* the caller has the outcome of the call
RouterCallEnds ==
    /\ router.pc = "done"
    /\ router' = [router EXCEPT !.pc = "idle", !.calls = @ + 1, !.args = NoArgs,
                                !.sent = NoSent, !.got = "none", !.chunks = <<>>,
                                !.outcome = NoOutcome]
    /\ cli' = CliIdle
    /\ UNCHANGED <<spawned, gemini, ids, setup, parked, kkey, kverdict, hcall, flow, stats>>

NextRouter ==
    \/ RouterConstruct \/ RouterCreate \/ RouterUpstreamReturns
    \/ RouterLocalReturns \/ RouterCallEnds
    \/ ClockTick
    \/ CliSpawnOk \/ CliSpawnFails \/ CliExit \/ CliTimeout \/ CliReap

SpecRouter == Init /\ [][NextRouter]_vars

(***************************************************************************)
(* SpecGemini: gemini_router.configure, GenerativeModel(...) and           *)
(* generate_content calls in any order                                     *)
(***************************************************************************)
MaxConfigures == 2
MaxModels == 2
MaxGeminiCalls == 2

\* the api_key arguments: None, "", all nines, nines after a prefix, a real key
GeminiKeys ==
    {NoKey, Some(<<>>), Some(<<Run("9", 12)>>),
     Some(<<Run("x", 2), Run("-", 1), Run("9", 12)>>),
     Some(<<Run("x", 4), Run("-", 1), Run("x", 3)>>)}
\* GOOGLE_API_KEY: unset, all nines, a real key
GoogleEnvKeys == {NoKey, Some(<<Run("9", 9)>>), Some(<<Run("x", 5)>>)}

\* gemini_router.configure(api_key=...)
GeminiConfigure ==
    /\ gemini.pc = "idle" /\ gemini.configures < MaxConfigures
    /\ \E api_key \in GeminiKeys, env \in GoogleEnvKeys :
          gemini' = configure(gemini, api_key, env)
    /\ UNCHANGED <<spawned, ids, router, setup, parked, kkey, kverdict, cli, hcall, flow, stats>>

\* GenerativeModel("gemini-pro")
GeminiConstruct ==
    /\ gemini.pc = "idle" /\ Len(gemini.models) < MaxModels
    /\ gemini' = GenerativeModel_init(gemini)
    /\ UNCHANGED <<spawned, ids, router, setup, parked, kkey, kverdict, cli, hcall, flow, stats>>

\* model.generate_content(...) or await model.generate_content_async(...)
GeminiGenerate ==
    /\ gemini.pc = "idle" /\ gemini.calls < MaxGeminiCalls
    /\ \E i \in DOMAIN gemini.models, async \in BOOLEAN, stream \in BOOLEAN :
          \E r \in {generate_content(gemini, i, async, stream, cli)} :
             gemini' = r.gemini /\ cli' = r.cli
    /\ UNCHANGED <<spawned, ids, router, setup, parked, kkey, kverdict, hcall, flow, stats>>

\* the real library's generate_content returns or raises
GeminiUpstreamReturns ==
    /\ gemini.pc = "upstream"
    /\ \E outcome \in {"response", "APIError"} :
          gemini' = [gemini EXCEPT !.pc = "done", !.outcome = outcome]
    /\ UNCHANGED <<spawned, ids, router, setup, parked, kkey, kverdict, cli, hcall, flow, stats>>

\* the client's CLI call has ended: the response object, or its exception
GeminiLocalReturns ==
    /\ gemini.pc = "local" /\ cli.pc = "done"
    /\ gemini' = [gemini EXCEPT !.pc = "done",
                                !.outcome = IF cli.result.kind = "return"
                                            THEN "response" ELSE cli.result.exc]
    /\ UNCHANGED <<spawned, ids, router, setup, parked, kkey, kverdict, cli, hcall, flow, stats>>

\* the caller has the outcome of the call
GeminiCallEnds ==
    /\ gemini.pc = "done"
    /\ gemini' = [gemini EXCEPT !.pc = "idle", !.calls = @ + 1, !.outcome = "none"]
    /\ cli' = CliIdle
    /\ UNCHANGED <<spawned, ids, router, setup, parked, kkey, kverdict, hcall, flow, stats>>

NextGemini ==
    \/ GeminiConfigure \/ GeminiConstruct \/ GeminiGenerate
    \/ GeminiUpstreamReturns \/ GeminiLocalReturns \/ GeminiCallEnds
    \/ CliSpawnOk \/ CliSpawnFails \/ CliExit \/ CliTimeout \/ CliReap

SpecGemini == Init /\ [][NextGemini]_vars

(***************************************************************************)
(* SpecArgv: one CLI process is spawned, by a direct call of the function  *)
(* that builds the command or by a proxy handler answering a request.      *)
(***************************************************************************)
\* the models given to the functions directly
MapperModels ==
    {JNull, JStr(<<>>), JStr(<<"gpt", "4">>)}
    \cup {JStr(ClaudeCodeProxyHandler_model_map[i].full_name) :
             i \in 1..Len(ClaudeCodeProxyHandler_model_map)}
    \cup {JStr(Codex_model_map[i].full_name) : i \in 1..Len(Codex_model_map)}
    \cup {JStr(<<"x", "claude", "3", "opus", "20240229", "v2">>),
          JStr(<<"claude", "3", "Opus", "20240229">>),
          JStr(<<"my", "Opus">>),
          JStr(<<"sonnet", "opus">>),
          JStr(<<"haiku", "claude", "3", "opus", "20240229">>),
          JStr(<<"claude", "3", "sonnet", "20240229", "claude", "3", "opus",
                 "20240229">>),
          JStr(<<"claude", "2">>),
          JStr(<<"claude", "2", ".5">>),
          JStr(<<"my", "claude", "instant">>),
          JStr(<<"DaVinci", "x">>),
          JStr(<<"cushman", "davinci">>),
          JStr(<<"code", "cushman", "001", "code", "davinci", "002">>),
          JStr(<<"models", "/", "gemini", "pro">>),
          JStr(<<"gemini", "1.5", "flash">>)}

\* the paths of the requests given to the Gemini handler
GeminiPaths ==
    {<<"/", "v1beta", "/", "models/", "gemini", "pro", ":", "generateContent">>,
     <<"/", "v1beta", "/", "models/", "gemini", "1.5", "flash", ":", "generateContent">>,
     <<"/", "v1beta", "/", "models/", "tunedModels", "/", "mine", ":", "generateContent">>,
     <<"/", "v1beta", "/", "models/", "--sandbox=false", ":", "generateContent">>,
     <<"/", "v1beta", "/", "models/", ":", "generateContent">>,
     <<"/", "v1", "/", "generate">>}

ArgvCallers == Clients \cup HandlerCalls \cup GeminiClientCalls

\* f(prompt, model) called directly
CallWithModel ==
    /\ spawned = NoneSpawned
    /\ \E caller \in ArgvCallers, model \in MapperModels, prompt \in {<<>>, TextHi} :
          spawned' = [caller |-> caller, via |-> "direct", model |-> model,
                      path |-> <<>>, cmd |-> command(caller, model),
                      stdin |-> prompt]
    /\ UNCHANGED <<gemini, ids, router, setup, parked, kkey, kverdict, cli, hcall,
                   flow, stats>>

\* handle_messages_request / handle_complete_request reaches its CLI call
HandlerSpawns ==
    /\ spawned = NoneSpawned
    /\ \E handler \in {"claude", "codex"}, endpoint \in {"messages", "complete"},
          method \in Methods :
          \E body \in Bodies(handler, endpoint) :
             \E h \in {HEnter(handler, endpoint, body, method)} :
                /\ h.pc = "cli"
                /\ \E model \in {Get(body.model, JStr(NameSonnet3))} :
                      spawned' = [caller |-> HandlerCli(handler), via |-> "request",
                                  model |-> model, path |-> <<>>,
                                  cmd |-> command(HandlerCli(handler), model),
                                  stdin |-> h.prompt]
    /\ UNCHANGED <<gemini, ids, router, setup, parked, kkey, kverdict, cli, hcall,
                   flow, stats>>

\* handle_generate_content_request reaches its CLI call
GeminiHandlerSpawns ==
    /\ spawned = NoneSpawned
    /\ \E method \in Methods, path \in GeminiPaths,
          body \in Bodies("gemini", "generate") :
          \E h \in {HEnter("gemini", "generate", body, method)} :
             /\ h.pc = "cli"
             /\ \E model \in {JStr(gemini_model_of_path(path))} :
                   spawned' = [caller |-> HandlerCli("gemini"), via |-> "request",
                               model |-> model, path |-> path,
                               cmd |-> command(HandlerCli("gemini"), model),
                               stdin |-> h.prompt]
    /\ UNCHANGED <<gemini, ids, router, setup, parked, kkey, kverdict, cli, hcall,
                   flow, stats>>

NextArgv == CallWithModel \/ HandlerSpawns \/ GeminiHandlerSpawns

SpecArgv == Init /\ [][NextArgv]_vars

(***************************************************************************)
(* Claims                                                                  *)
(***************************************************************************)

\* the part of a text after its last '-', read from the end of the text
RECURSIVE SuffixAfterLastDash(_)
SuffixAfterLastDash(k) ==
    IF k = <<>> \/ k[Len(k)].c = "-" THEN <<>>
    ELSE SuffixAfterLastDash(SubSeq(k, 1, Len(k) - 1)) \o <<k[Len(k)]>>

\* a text that is non-empty and holds no character but 9
OnlyNines(k) == k # <<>> /\ {k[i].c : i \in 1..Len(k)} = {"9"}

\* C3 (as claimed): when the bounded wait of ClaudeCodeClient.acreate_message,
\* CodexClient.acreate_message or a backend handler's _call_claude_cli_async
\* timed out and the call has raised, its child process has been killed and
\* reaped.
C3_TimeoutLeavesNoChild ==
    (/\ cli.caller \in Clients \cup {"ClaudeCodeProxyHandler._call_claude_cli_async",
                                     "CodexProxyHandler._call_claude_cli_async"}
     /\ cli.pc = "done" /\ cli.env = "timeout")
    => cli.proc = "reaped"

\* C4: when run_subprocess or run_subprocess_async has raised CLITimeoutError,
\* the events of the call were, in this order: timeout, kill, reap, raise; the
\* child is reaped.
C4_KillReapBeforeRaise ==
    (cli.caller \in Runners /\ cli.result.exc = "CLITimeoutError")
    => /\ cli.events = <<"spawn", "timeout", "kill", "reap", "raise">>
       /\ cli.proc = "reaped"

C4_Witness ==
    /\ cli.caller = "run_subprocess_async"
    /\ cli.pc = "done" /\ cli.result.exc = "CLITimeoutError"

\* C5 (as claimed): _is_all_nines(k) is true exactly when the part of k after
\* its last '-' is non-empty, shorter than 100 characters and all 9s.
C5_SuffixOnly ==
    kverdict.by = "proxy"
    => (kverdict.v <=> (/\ OnlyNines(SuffixAfterLastDash(kverdict.key))
                        /\ StrLen(SuffixAfterLastDash(kverdict.key)) < 100))

\* C5 (amended): _is_all_nines(k) is true exactly when k is at most 200
\* characters long, holds at most 9 '-' (at most 10 segments), and the part
\* after its last '-' is non-empty, shorter than 100 characters and all 9s.
C5_SuffixWithinBounds ==
    kverdict.by = "proxy"
    => (kverdict.v <=> (/\ StrLen(kverdict.key) <= 200
                        /\ CountChar(kverdict.key, "-") <= 9
                        /\ OnlyNines(SuffixAfterLastDash(kverdict.key))
                        /\ StrLen(SuffixAfterLastDash(kverdict.key)) < 100))

C5_Witness ==
    /\ kverdict.by = "proxy" /\ kverdict.v
    /\ CountChar(kverdict.key, "-") > 0
    /\ StrLen(SuffixAfterLastDash(kverdict.key)) = 99

\* C6 (as claimed): is_all_nines_api_key and _check_claude_code_mode are false
\* for an empty or missing credential and otherwise true exactly when the
\* part after the last '-' is non-empty and all 9s.
C6_LibraryClassifiers ==
    kverdict.by \in {"utils", "router"}
    => (kverdict.v <=> OnlyNines(SuffixAfterLastDash(kverdict.key)))

\* C8 (as claimed): run_subprocess and run_subprocess_async end every outcome
\* alike: exit code 0 returns the trimmed standard output, a missing
\* executable raises CLINotFoundError, a timeout CLITimeoutError, a non-zero
\* exit CLIError, any other spawn failure CLIError.
C8_SameResultKinds ==
    (cli.caller \in Runners /\ cli.pc = "done")
    => CASE cli.env = "exit0" ->
              cli.result.kind = "return" /\ cli.result.text = Strip(cli.out)
         [] cli.env = "FileNotFoundError" -> cli.result.exc = "CLINotFoundError"
         [] cli.env = "timeout" -> cli.result.exc = "CLITimeoutError"
         [] cli.env = "nonzero" -> cli.result.exc = "CLIError"
         [] OTHER -> cli.result.exc = "CLIError"

\* the four ways a local call fails, as the environment of the CLI call
FailureKinds == {"FileNotFoundError", "timeout", "nonzero", "PermissionError"}

\* the event of the CLI call that makes a failure kind happen
FailureEvent(kind) ==
    CASE kind = "timeout" -> TimedOut
      [] kind = "nonzero" -> Exited(1, <<>>, <<Run("e", 4)>>)
      [] OTHER -> SpawnFailed(kind)

\* the error-type tag a handler answers a failure kind with
FailureTag(handler, endpoint, kind) ==
    HandlerEnd(handler, endpoint,
               React(HandlerCli(handler), FailureEvent(kind), FALSE).result).type

\* every validation check of the request of the current handler call passes
ChecksPass ==
    LET b == hcall.body
        model == Get(b.model, JStr(NameSonnet3))
        tokens == IF hcall.endpoint = "messages"
                  THEN Get(b.max_tokens, JInt(DefaultMaxTokens))
                  ELSE Get(b.max_tokens_to_sample, JInt(DefaultMaxTokens))
        messages == Get(b.messages, JList(<<>>))
        system == Get(b.system, JNull)
        temperature == Get(b.temperature, JNull)
        prompt == Get(b.prompt, JStr(<<>>))
    IN  /\ hcall.method = "POST"
        /\ b.t = "dict"
        /\ IF hcall.handler = "codex"
           THEN CodexProxyHandler_validate_model(model) = "valid"
           ELSE ClaudeCodeProxyHandler_validate_model(model) = "valid"
        /\ IsInt(tokens) /\ tokens.i >= 1 /\ tokens.i <= 100000
        /\ ~Truthy(Get(b.stream, JBool(FALSE)))
        /\ hcall.endpoint = "messages" =>
              /\ validate_messages(messages) = "ok"
              /\ Truthy(system) => system.kind = "str" /\ StrLen(system.s) <= 50000
              /\ temperature.kind # "null" =>
                    /\ IsNumber(temperature)
                    /\ Tenths(temperature) >= 0 /\ Tenths(temperature) <= 20
              /\ StrLen(format_messages_for_claude(messages, system)) <= 100000
        /\ hcall.endpoint = "complete" =>
              prompt.kind = "str" /\ StrLen(prompt.s) <= 100000

C9_DistinctErrorTags ==
    (hcall.pc = "done" /\ cli.pc = "done" /\ cli.env \in FailureKinds)
    => \A other \in FailureKinds \ {cli.env} :
          FailureTag(hcall.handler, hcall.endpoint, other) # hcall.envelope.type

\* the request is to a recognized host and passes _validate_request
Validated(request) ==
    /\ is_anthropic_request(request) \/ is_openai_request(request)
    /\ validate_request(request) = <<>>

\* the credential taken from the request's headers is classified local
LocalCredential(request) == is_all_nines(extract_api_key(request))

\* C1: the request hook, run on a validated request to a recognized host
\* whose credential is not classified local, invokes no handler, spawns no
\* CLI process and leaves flow.response and the request as they were; such a
\* request is answered by the upstream only.
C1_PassThroughUntouched ==
    /\ [][(/\ flow.pc = "request"
           /\ Validated(flow.request) /\ ~LocalCredential(flow.request))
          => /\ flow'.pc = "upstream"
             /\ flow'.request = flow.request
             /\ flow'.response = flow.response /\ ~flow'.response.set
             /\ hcall' = hcall /\ hcall'.pc = "idle"
             /\ cli' = cli /\ cli'.spawns = 0 /\ cli'.pc = "idle"]_vars
    /\ []((/\ flow.pc \in {"upstream", "replied"}
           /\ Validated(flow.request) /\ ~LocalCredential(flow.request))
          => /\ hcall.pc = "idle" /\ cli.spawns = 0
             /\ flow.response.origin # "addon")

C1_Witness ==
    /\ flow.pc = "upstream" /\ is_openai_request(flow.request)
    /\ flow.request.x_api_key = Some(KeyReal)
    /\ flow.request.authorization = Some(Cat(LitBearer, KeyLocal))
    /\ flow.request.path = PathMessages /\ flow.request.method = "POST"
    /\ stats.openai_forwarded = 1 /\ ~flow.response.set

\* C2: a validated request to a recognized host whose credential is
\* classified local never goes upstream: its request hook sets flow.response
\* to a response the addon made, at once or, when it awaits a handler, always
\* in the end, whatever the outcome of the CLI.
C2_LocalAlwaysAnswered ==
    /\ [][(/\ flow.pc = "request"
           /\ Validated(flow.request) /\ LocalCredential(flow.request))
          => flow'.pc \in {"answered", "handler"}]_vars
    /\ []((Validated(flow.request) /\ LocalCredential(flow.request))
          => /\ flow.pc \notin {"upstream", "ignored", "replied"}
             /\ flow.pc = "answered"
                  => flow.response.set /\ flow.response.origin = "addon")
    /\ (flow.pc = "handler")
       ~> (/\ flow.pc = "answered"
           /\ flow.response.set /\ flow.response.origin = "addon")

C2_Witness ==
    /\ Validated(flow.request) /\ LocalCredential(flow.request)
    /\ flow.pc = "answered" /\ cli.env = "timeout" /\ cli.proc = "reaped"
    /\ flow.response.set /\ flow.response.origin = "addon"
    /\ flow.response.body.kind = "error"

\* C10: the status of a response made from a handler's result is 200 when
\* the result has no error; otherwise 404 when the error type contains
\* not_found, else 400 when it contains invalid or request, else 401 when it
\* contains unauthorized, else 500.
C10_StatusFromResult ==
    (flow.response.set /\ flow.response.via = "result")
    => LET result == flow.response.body
           Has(words) == Contains(result.type, words)
       IN  /\ hcall.pc = "done" => result = hcall.envelope
           /\ flow.response.status =
                 IF result.kind # "error" THEN 200
                 ELSE IF Has(<<"not", "found">>) THEN 404
                 ELSE IF Has(<<"invalid">>) \/ Has(<<"request">>) THEN 400
                 ELSE IF Has(<<"unauthorized">>) THEN 401
                 ELSE 500

C10_Witness ==
    /\ flow.pc = "answered" /\ hcall.pc = "done"
    /\ cli.env = "FileNotFoundError"
    /\ flow.response.via = "result" /\ flow.response.status = 404


\* the request is to a recognized host
Recognized(request) == is_anthropic_request(request) \/ is_openai_request(request)

\* the method is outside the method allow-list or the path does not match
\* the path allow-list
MethodOrPathViolation(request) ==
    \/ request.method \notin ALLOWED_METHODS
    \/ ~ALLOWED_PATHS_REGEX_match(request.path)

\* C11: the request hook, run on a request to a recognized host whose method
\* is outside the method allow-list or whose path does not match the path
\* allow-list, answers it with a 400 error body the addon made (error type
\* not_found when only the path is at fault), adds one to total_requests and
\* to blocked_requests and to no other counter, parses no body, invokes no
\* handler and spawns no CLI process, whatever the credential; such a request
\* never goes upstream.
C11_BlockedBeforeRouting ==
    /\ [][(/\ flow.pc = "request"
           /\ Recognized(flow.request) /\ MethodOrPathViolation(flow.request))
          => /\ flow'.pc = "answered"
             /\ flow'.response.set /\ flow'.response.status = 400
             /\ flow'.response.origin = "addon"
             /\ flow'.response.via = "validation"
             /\ flow'.response.body.kind = "error"
             /\ flow.request.method \in ALLOWED_METHODS
                  => flow'.response.body.type = <<"not", "found">>
             /\ stats' = [stats EXCEPT !.total_requests = @ + 1,
                                       !.blocked_requests = @ + 1]
             /\ hcall' = hcall /\ hcall'.pc = "idle"
             /\ cli' = cli /\ cli'.spawns = 0 /\ cli'.pc = "idle"]_vars
    /\ []((Recognized(flow.request) /\ MethodOrPathViolation(flow.request))
          => /\ flow.pc \in {"request", "answered"}
             /\ hcall.pc = "idle" /\ cli.spawns = 0)

C11_Witness ==
    /\ flow.pc = "answered" /\ is_anthropic_request(flow.request)
    /\ flow.request.method = "POST"
    /\ flow.request.path = PathV1 \o <<"/", "c", "h", "a", "t">>
    /\ flow.request.x_api_key = Some(KeyLocal)
    /\ flow.response.status = 400 /\ flow.response.via = "validation"
    /\ flow.response.body.type = <<"not", "found">>
    /\ stats.blocked_requests = 1 /\ stats.claude_code_routed = 0


\* the five counters of which a request adds one to exactly one
CategoryCounters ==
    {"blocked_requests", "claude_code_routed", "codex_routed",
     "anthropic_forwarded", "openai_forwarded"}

\* the flows in flight whose request hook has not run yet
NotYetRouted ==
    (IF flow.pc = "request" THEN 1 ELSE 0)
    + (IF parked.flow.pc = "request" THEN 1 ELSE 0)

\* C12: with the hooks of two flows to recognized hosts interleaved in every
\* way the event loop allows, total_requests is the number of requests whose
\* hook has passed the routing decision and is the sum of blocked_requests,
\* claude_code_routed, codex_routed, anthropic_forwarded and
\* openai_forwarded; a step changes these counters only by running a request
\* hook, which adds one to total_requests and to exactly one of the five.
C12_NoLostIncrement ==
    /\ [](/\ stats.total_requests = flow.n - NotYetRouted
          /\ stats.total_requests =
                stats.blocked_requests + stats.claude_code_routed
                + stats.codex_routed + stats.anthropic_forwarded
                + stats.openai_forwarded)
    /\ [][(\E c \in CategoryCounters \cup {"total_requests"} : stats'[c] # stats[c])
          => /\ flow.pc = "request" /\ flow'.pc # "request"
             /\ parked' = parked
             /\ stats'.total_requests = stats.total_requests + 1
             /\ \E c \in CategoryCounters :
                   /\ stats'[c] = stats[c] + 1
                   /\ \A d \in CategoryCounters \ {c} : stats'[d] = stats[d]]_vars

\* both flows are suspended at the await of their CLI, each counted once
C12_Witness ==
    /\ flow.pc = "handler" /\ parked.flow.pc = "handler"
    /\ cli.spawns = 1 /\ parked.cli.spawns = 1
    /\ cli.pc # "done" /\ parked.cli.pc # "done"
    /\ stats.total_requests = 2
    /\ stats.claude_code_routed = 1 /\ stats.codex_routed = 1


\* the body names a non-empty model that is neither in the allow-list of the
\* handler nor contains one of its family keywords
UnknownModelNamed(handler, model) ==
    /\ model.kind = "str" /\ model.s # <<>>
    /\ IF handler = "codex"
       THEN /\ model.s \notin CODEX_VALID_MODELS
            /\ \A k \in {<<"davinci">>, <<"cushman">>} : ~Contains(Lower(model.s), k)
       ELSE /\ model.s \notin VALID_MODELS
            /\ \A k \in {<<"opus">>, <<"sonnet">>, <<"haiku">>, <<"claude", "2">>,
                         <<"claude", "instant">>} : ~Contains(Lower(model.s), k)

\* the handler call has answered that the model is invalid or unsupported
RejectedForModel ==
    /\ hcall.pc = "done" /\ hcall.envelope.kind = "error"
    /\ hcall.envelope.message = "unsupported model"

\* the checks made before the model check pass
ModelCheckReached ==
    /\ hcall.method = "POST" /\ hcall.body.t = "dict"
    /\ hcall.endpoint = "messages"
         => validate_messages(Get(hcall.body.messages, JList(<<>>))) = "ok"
    /\ hcall.endpoint = "complete"
         => LET prompt == Get(hcall.body.prompt, JStr(<<>>))
            IN  prompt.kind = "str" /\ StrLen(prompt.s) <= MAX_PROMPT_LENGTH

\* C13: a call of handle_messages_request or handle_complete_request of
\* either backend handler is rejected for its model exactly when the body
\* names a non-empty model that is neither in the handler's allow-list nor
\* contains one of its family keywords; a body without a model is never
\* rejected for its model.
C13_ModelRejectedIffUnknown ==
    (hcall.pc \in {"cli", "done"} /\ hcall.handler \in {"claude", "codex"})
    => /\ RejectedForModel => UnknownModelNamed(hcall.handler, hcall.body.model)
       /\ (ModelCheckReached /\ UnknownModelNamed(hcall.handler, hcall.body.model))
            => RejectedForModel
       /\ hcall.body.model.kind = "absent" => ~RejectedForModel


\* a client was called with stream=True: it has raised NotImplementedError
\* and made no spawn call
ClientStreamRefused ==
    (cli.caller \in Clients /\ cli.stream)
    => /\ cli.pc = "done"
       /\ cli.result.kind = "raise" /\ cli.result.exc = "NotImplementedError"
       /\ cli.spawns = 0 /\ cli.procs = 0 /\ cli.events = <<>>

\* a backend handler was called with a body whose stream is true
HandlerStreamCall ==
    /\ hcall.pc # "idle" /\ hcall.handler \in {"claude", "codex"}
    /\ hcall.body.stream = JBool(TRUE)

\* C14 as stated: with stream set to true a client's create_message or
\* acreate_message raises the not-supported error and a proxy handler
\* returns an invalid_request_error envelope, with no spawn call made.
C14_StreamInvalidRequest ==
    /\ ClientStreamRefused
    /\ HandlerStreamCall
         => /\ hcall.pc = "done" /\ hcall.envelope.kind = "error"
            /\ hcall.envelope.type = <<"invalid", "request", "error">>
            /\ cli.pc = "idle" /\ cli.spawns = 0

\* C14, but for a model that is not a string: with stream set to true a client's create_message or
\* acreate_message raises the not-supported error and a proxy handler
\* returns an error envelope, with no spawn call made; the envelope is an
\* invalid_request_error unless the model given is not a string, for which
\* the model check raises and the envelope is an api_error.
C14_StreamRejectedBeforeSpawn ==
    /\ ClientStreamRefused
    /\ HandlerStreamCall
         => /\ hcall.pc = "done" /\ hcall.envelope.kind = "error"
            /\ cli.pc = "idle" /\ cli.spawns = 0
            /\ IF /\ ModelCheckReached
                  /\ Truthy(hcall.body.model) /\ hcall.body.model.kind # "str"
               THEN hcall.envelope.type = <<"api", "error">>
               ELSE hcall.envelope.type = <<"invalid", "request", "error">>

\* a well-formed body with stream true is refused for streaming
C14_Witness ==
    /\ HandlerStreamCall /\ hcall.handler = "codex" /\ hcall.endpoint = "messages"
    /\ hcall.pc = "done" /\ hcall.envelope.message = "streaming not supported"
    /\ cli.spawns = 0


\* the value the handler takes for max_tokens (max_tokens_to_sample on the
\* legacy endpoint), 1024 when the key is absent
TokensGiven ==
    IF hcall.endpoint = "messages" THEN Get(hcall.body.max_tokens, JInt(1024))
    ELSE Get(hcall.body.max_tokens_to_sample, JInt(1024))

\* the checks made before the max_tokens check pass
TokensCheckReached ==
    /\ ModelCheckReached
    /\ validate_model(hcall.handler, Get(hcall.body.model, JStr(NameSonnet3))) = "valid"

\* the handler call has answered that max_tokens is out of range
RejectedForTokens ==
    /\ hcall.pc = "done"
    /\ hcall.envelope.type = <<"invalid", "request", "error">>
    /\ hcall.envelope.message \in {"max_tokens out of range",
                                   "max_tokens_to_sample out of range"}

C15_WitnessAbove ==
    RejectedForTokens /\ hcall.body.max_tokens = JInt(100001)
C15_WitnessBelow ==
    RejectedForTokens /\ hcall.body.max_tokens_to_sample = JInt(0)
C15_WitnessLowest ==
    hcall.pc = "cli" /\ hcall.body.max_tokens_to_sample = JInt(1)


\* the messages (contents for the Gemini handler) the validator is given
ListGiven ==
    IF hcall.handler = "gemini" THEN Get(hcall.body.contents, JList(<<>>))
    ELSE Get(hcall.body.messages, JList(<<>>))

\* the handler call has answered with an error of its list validator and
\* made no spawn call
RejectedByValidator ==
    /\ hcall.pc = "done" /\ hcall.envelope.kind = "error"
    /\ hcall.envelope.message \in
         {"must be an array", "cannot be empty", "too many", "must be a list",
          "must be an object", "invalid role", "missing content",
          "content too long", "missing parts", "too large"}
    /\ cli.spawns = 0

\* C16: _validate_messages (through handle_messages_request) and
\* _validate_contents (through handle_generate_content_request) reject a
\* value that is not a list, an empty list and a list of more than 100
\* items, and accept a list of exactly 100 well-formed items.
C16_ListSizeChecked ==
    (/\ hcall.pc \in {"cli", "done"} /\ hcall.endpoint \in {"messages", "generate"}
     /\ hcall.method = "POST" /\ hcall.body.t = "dict")
    => /\ (\/ ListGiven.kind # "list"
           \/ ListLen(ListGiven.s) = 0
           \/ ListLen(ListGiven.s) > 100) => RejectedByValidator
       /\ ListGiven \in {JList(<<Items(UserHi, 100)>>),
                         JList(<<Items(Content("user", <<TextHi>>), 100)>>)}
            => ~RejectedByValidator


\* the prefix that tells the backend apart
BackendPrefix(codex) == IF codex THEN "msg_codex_" ELSE "msg_claude_code_"

\* C17: the id of a response served locally begins with msg_claude_code_
\* when the Claude backend served it and with msg_codex_ when the Codex
\* backend did, for a Message built by a client and for a messages response
\* built by a proxy handler.
C17_IdNamesBackend ==
    /\ (cli.caller \in Clients /\ cli.pc = "done" /\ cli.result.kind = "return")
       => message_id_prefix(cli.caller)
            = BackendPrefix(cli.caller \in {"CodexClient.create_message",
                                            "CodexClient.acreate_message"})
    /\ (/\ hcall.pc = "done" /\ hcall.handler \in {"claude", "codex"}
        /\ hcall.envelope.kind = "message")
       => hcall.envelope.id_prefix = BackendPrefix(hcall.handler = "codex")


\* the part of a text between its first and its last character that is not
\* white space, the text being given by runs of different characters
Trimmed(s) ==
    LET inked == {i \in 1..Len(s) : s[i].c \notin {" ", "\n"}}
    IN  IF inked = {} THEN <<>>
        ELSE SubSeq(s, CHOOSE i \in inked : \A j \in inked : i <= j,
                       CHOOSE i \in inked : \A j \in inked : i >= j)

\* t is the first k characters of s, all of s when s is not longer
FirstChars(t, s, k) ==
    LET length(x) == IF x = <<>> THEN 0
                     ELSE LET sum[i \in 0..Len(x)] ==
                                  IF i = 0 THEN 0 ELSE sum[i - 1] + x[i].n
                          IN  sum[Len(x)]
        m == Len(t)
    IN  IF length(s) <= k THEN t = s
        ELSE /\ length(t) = k /\ m >= 1 /\ m <= Len(s)
             /\ \A i \in 1..(m - 1) : t[i] = s[i]
             /\ t[m].c = s[m].c /\ t[m].n <= s[m].n

\* a backend handler has returned a success body made from the CLI's output
LocalSuccess ==
    /\ hcall.pc = "done" /\ hcall.handler \in {"claude", "codex"}
    /\ hcall.envelope.kind \in {"message", "completion"}

\* C18: the text of a success body of a proxy handler (content[0].text of
\* the messages response, completion of the legacy response) is the CLI's
\* standard output without the white space around it, cut to its first
\* 100000 characters when that is longer; it is never longer than 100000
\* characters.
C18_TextIsTrimmedOutput ==
    LocalSuccess
    => /\ cli.pc = "done" /\ cli.env = "exit0"
       /\ FirstChars(hcall.envelope.text, Trimmed(cli.out), 100000)
       /\ StrLen(hcall.envelope.text) <= 100000

\* the output is longer than the maximum after trimming and is cut
C18_Witness ==
    /\ LocalSuccess /\ hcall.handler = "claude" /\ hcall.endpoint = "messages"
    /\ cli.out = <<Run("\n", 1), Run("a", 99999), Run(" ", 1), Run("b", 5)>>
    /\ hcall.envelope.text = <<Run("a", 99999), Run(" ", 1)>>


\* piece occurs in the text s, both in normal form
HasPiece(s, piece) ==
    LET m == Len(piece)
    IN  \/ m = 0
        \/ \E i \in 1..(Len(s) - m + 1) :
              /\ s[i].c = piece[1].c /\ s[i + m - 1].c = piece[m].c
              /\ IF m = 1 THEN s[i].n >= piece[1].n
                 ELSE /\ s[i].n >= piece[1].n /\ s[i + m - 1].n >= piece[m].n
                      /\ \A j \in 2..(m - 1) : s[i + j - 1] = piece[j]

\* the content list flattened with the placeholder for each part that is
\* not text
RECURSIVE FlatWithPlaceholders(_)
FlatWithPlaceholders(parts) ==
    IF parts = <<>> THEN <<>>
    ELSE LET part == Head(parts)
             text == IF part.t = "dict" /\ part.type # "text"
                     THEN LitImagePlaceholder ELSE part.text
             rest == FlatWithPlaceholders(Tail(parts))
         IN  IF text = <<>> THEN rest
             ELSE IF rest = <<>> THEN text
             ELSE Cat(Cat(text, LitSpace), rest)

\* every message with a content list is in the prompt with its parts in
\* order, a placeholder standing for each part that is not text
PartsKept(messages, prompt) ==
    \A k \in 1..Len(messages.s) :
       LET content == messages.s[k].m.content
       IN  content.kind = "list" => HasPiece(prompt, FlatWithPlaceholders(content.s))

\* C19: the prompt that ClaudeCodeProxyHandler._format_messages_for_claude
\* (in handle_messages_request) and ClaudeCodeClient._format_messages_for_claude
\* (in create_message and acreate_message) build holds, for every part of a
\* content list that is not text, the fixed placeholder at the part's
\* position among the text parts.
C19_PlaceholderForNonText ==
    /\ (/\ hcall.pc = "cli" /\ hcall.handler \in {"claude", "codex"}
        /\ hcall.endpoint = "messages")
       => PartsKept(hcall.body.messages, hcall.prompt)
    /\ (cli.caller \in Clients /\ cli.pc # "idle" /\ ~cli.stream)
       => PartsKept(cli.messages, cli.prompt)


\* the text s has the literal lit at run i, a block beginning there
StartsAt(s, i, lit) ==
    /\ i + Len(lit) - 1 <= Len(s)
    /\ \A j \in 1..(Len(lit) - 1) : s[i + j - 1] = lit[j]
    /\ s[i + Len(lit) - 1].c = lit[Len(lit)].c
    /\ s[i + Len(lit) - 1].n >= lit[Len(lit)].n

\* what the block that begins at run i of the prompt is: a System block (S),
\* a Human block (H), an Assistant block (A) or the closing cue (C)
BlockLabel(s, i) ==
    IF StartsAt(s, i, LitHuman) THEN "H"
    ELSE IF StartsAt(s, i, LitSystem) THEN "S"
    ELSE IF StartsAt(s, i, Cat(LitAssistant, LitSpace)) THEN "A"
    ELSE IF StartsAt(s, i, LitAssistant) /\ i + Len(LitAssistant) - 1 = Len(s) THEN "C"
    ELSE "?"

\* the labels of the blocks of runs lo..hi of the prompt, in order; a block
\* begins at the first run and after each blank line
RECURSIVE BlockLabels(_, _, _)
BlockLabels(s, lo, hi) ==
    IF lo > hi THEN <<>>
    ELSE IF lo = hi
         THEN IF lo = 1 \/ (s[lo - 1].c = "\n" /\ s[lo - 1].n >= 2)
              THEN <<BlockLabel(s, lo)>> ELSE <<>>
    ELSE LET mid == (lo + hi) \div 2
         IN  BlockLabels(s, lo, mid) \o BlockLabels(s, mid + 1, hi)

\* a text with a character that is neither white space nor NUL
NotBlank(text) == \E i \in 1..Len(text) : text[i].c \notin {" ", "\n", NUL}

\* the labels of the blocks that the messages ask for, in input order
RECURSIVE MessageLabels(_, _, _)
MessageLabels(msgs, lo, hi) ==
    IF lo > hi THEN <<>>
    ELSE IF lo = hi
         THEN CASE msgs[lo].role = "user" -> <<"H">>
                [] msgs[lo].role = "assistant" -> <<"A">>
                [] OTHER -> IF msgs[lo].content.kind = "str"
                               /\ NotBlank(msgs[lo].content.s)
                            THEN <<"S">> ELSE <<>>
    ELSE LET mid == (lo + hi) \div 2
         IN  MessageLabels(msgs, lo, mid) \o MessageLabels(msgs, mid + 1, hi)

\* handle_messages_request has built the prompt of a body that passed its
\* checks
PromptBuilt ==
    /\ hcall.pc = "cli" /\ cli.pc = "spawn"
    /\ hcall.handler \in {"claude", "codex"} /\ hcall.endpoint = "messages"

\* C20 as stated: System block first when a non-empty system prompt is
\* given, one Human block per user message and one Assistant block per
\* assistant message in input order, the assistant cue at the end.
C20_BlocksThenCue ==
    PromptBuilt
    => LET msgs == Expand(hcall.body.messages.s)
           system == Get(hcall.body.system, JNull)
           wanted == (IF system.kind = "str" /\ system.s # <<>>
                      THEN <<"S">> ELSE <<>>)
                     \o MessageLabels(msgs, 1, Len(msgs))
           labels == BlockLabels(hcall.prompt, 1, Len(hcall.prompt))
       IN  /\ labels \in {wanted, wanted \o <<"C">>}
           /\ EndsWith(Strip(hcall.prompt), LitAssistant)

\* C20, amended: the prompt built for a non-empty list of messages that
\* passes validation has a System block first when the system prompt is not
\* blank, then one Human block per user message, one Assistant block per
\* assistant message and one System block per system message that is not
\* blank, in input order; when there is any block the prompt ends, up to
\* white space, with the assistant cue, appended unless the last block
\* already ends with it; when there is none the prompt is empty.  Formatting
\* the same input again gives the same prompt.
C20_BlocksInOrder ==
    PromptBuilt
    => LET msgs == Expand(hcall.body.messages.s)
           system == Get(hcall.body.system, JNull)
           wanted == (IF system.kind = "str" /\ NotBlank(system.s)
                      THEN <<"S">> ELSE <<>>)
                     \o MessageLabels(msgs, 1, Len(msgs))
           labels == BlockLabels(hcall.prompt, 1, Len(hcall.prompt))
       IN  /\ labels \in {wanted, wanted \o <<"C">>}
           /\ IF wanted = <<>> THEN hcall.prompt = <<>>
              ELSE EndsWith(Strip(hcall.prompt), LitAssistant)
           /\ hcall.prompt = format_messages_for_claude(hcall.body.messages, system)

\* an assistant message, two user messages and a blank system message
C20_Witness ==
    /\ PromptBuilt
    /\ hcall.body.messages =
          JList(<<Items(Msg("assistant", JStr(TextHi)), 1), Items(UserHi, 2),
                  Items(Msg("system", JStr(<<Run(" ", 1)>>)), 1)>>)
    /\ BlockLabels(hcall.prompt, 1, Len(hcall.prompt)) = <<"A", "H", "H", "C">>


\* the path is under /v1/, what the default path patterns cover
UnderV1(path) ==
    /\ Len(path) >= Len(PathV1) + 1
    /\ SubSeq(path, 1, Len(PathV1) + 1) = PathV1 \o <<"/">>

\* the request hook has passed its validation step on a request to a
\* recognized host whose method and size are within the limits
PastValidation ==
    /\ flow.pc \in {"answered", "upstream", "handler", "replied"}
    /\ Recognized(flow.request)
    /\ flow.request.method \in ALLOWED_METHODS
    /\ flow.request.content.len <= MAX_REQUEST_SIZE

\* C21: with the default path patterns request validation accepts
\* /v1/chat/completions, /v1/completions and every other path under /v1/,
\* and rejects a path that matches no pattern with error type not_found.
C21_DefaultPathsAccepted ==
    PastValidation
    => IF UnderV1(flow.request.path)
       THEN flow.response.via # "validation"
       ELSE /\ flow.response.via = "validation"
            /\ flow.response.body.type = <<"not", "found">>


\* _handle_codex_request has answered, or awaits its handler, on a flow whose
\* body is a JSON object within the size limit
CodexDispatched ==
    /\ flow.pc \in {"handler", "answered"}
    /\ flow.request.content.json = "object"
    /\ flow.request.content.len <= MAX_REQUEST_SIZE

\* C22: _handle_codex_request gives a request for /v1/chat/completions to the
\* Codex handler's handle_messages_request and a request for /v1/completions
\* to its handle_complete_request, and the response it substitutes has status
\* 200 when the handler's body has no error key.
C22_CodexEndpointsDispatched ==
    CodexDispatched
    => /\ flow.request.path = PathChatCompletions
          => /\ hcall.pc # "idle" /\ hcall.handler = "codex"
             /\ hcall.endpoint = "messages"
       /\ flow.request.path = PathCompletions
          => /\ hcall.pc # "idle" /\ hcall.handler = "codex"
             /\ hcall.endpoint = "complete"
       /\ (flow.pc = "answered" /\ flow.response.body.kind # "error")
          => flow.response.status = 200


\* the step makes the call c on the Popen object
SetupCalls(c) ==
    \E i \in (Len(setup.calls) + 1)..Len(setup'.calls) : setup'.calls[i] = c

\* C26: generate_certificates calls terminate on the mitmdump it spawned only
\* after the CA certificate exists, the process has exited or the deadline
\* of 10 seconds has passed; it calls wait only after terminate, and kill
\* only right after that wait has raised TimeoutExpired; and it does not
\* return while the child is still running.
C26_ChildStoppedInOrder ==
    /\ [][SetupCalls("terminate")
          => \/ setup.ca \/ setup.proc # "running"
             \/ setup.clock >= DeadlineSeconds]_vars
    /\ [](\A i \in 1..Len(setup.calls) :
             /\ setup.calls[i] = "wait"
                => \E j \in 1..(i - 1) : setup.calls[j] = "terminate"
             /\ setup.calls[i] = "kill"
                => /\ i = 4 /\ setup.calls[i - 1] = "TimeoutExpired"
                   /\ setup.calls[i - 2] = "wait"
                   /\ setup.calls[i - 3] = "terminate")
    /\ [](setup.pc = "returned" => setup.proc \in {"none", "reaped"})

\* the child ignored the terminate, was killed and waited for
C26_Witness ==
    /\ setup.pc = "returned" /\ setup.proc = "reaped" /\ ~setup.ca
    /\ setup.report = "timed out"
    /\ setup.calls = <<"terminate", "wait", "TimeoutExpired", "kill", "wait">>


\* the client a router of the class installs for a key classified all nines
LocalClientOf(class) ==
    IF class \in {"OpenAIRouter", "AsyncOpenAIRouter"} THEN "CodexClient"
    ELSE "ClaudeCodeClient"

\* C23: a router's mode is chosen once, at construction.  create_client
\* builds an OpenAIRouter for provider codex or openai and an AnthropicRouter
\* otherwise; a router holds a local CLI client (CodexClient for the OpenAI
\* routers, ClaudeCodeClient otherwise) exactly when its API key is
\* classified all nines, and the upstream SDK client otherwise; key, mode and
\* client never change afterwards; every messages.create call follows the
\* mode, and in upstream mode no call enters a CLI call or spawns a process.
C23_ModeChosenAtConstruction ==
    /\ [](router.class # "none"
          => LET nines == is_all_nines_api_key(Some(router.api_key))
             IN  /\ router.local = nines
                 /\ router.client = IF nines THEN LocalClientOf(router.class)
                                    ELSE SdkClient(router.class)
                 /\ router.provider \in {"codex", "openai"}
                    => router.class = "OpenAIRouter"
                 /\ router.provider \in {"claude", "gemini"}
                    => router.class = "AnthropicRouter"
                 /\ nines => /\ router.pc # "upstream"
                             /\ router.sent = NoSent
                             /\ router.pc = "local"
                                => cli.caller = ClientMethod(router.class)
                 /\ ~nines => /\ router.pc # "local"
                              /\ cli = CliIdle
                              /\ router.pc = "upstream" => router.sent # NoSent)
    /\ [][router.class # "none"
          => /\ router'.class = router.class
             /\ router'.api_key = router.api_key
             /\ router'.local = router.local
             /\ router'.client = router.client]_vars

\* a router made for provider OpenAI with a key of nines has answered one
\* call from the Codex CLI and is in its second call
C23_Witness ==
    /\ router.provider = "openai" /\ router.client = "CodexClient"
    /\ router.calls = 1 /\ router.pc = "done"
    /\ router.outcome.kind = "message" /\ router.outcome.id = "msg_codex_"
    /\ cli.spawns = 1

\* a router with a real key has had an answer from upstream and calls again
C23_WitnessUpstream ==
    /\ router.class = "AsyncAnthropicRouter" /\ router.client = "AsyncAnthropic"
    /\ router.calls = 1 /\ router.pc = "upstream"


\* C24: in upstream mode with stream=True, messages.create of OpenAIRouter
\* and AsyncOpenAIRouter raises RuntimeError when the upstream stream ends
\* without an event, and returns no Message.
C24_EmptyStreamRaises ==
    (/\ router.class \in {"OpenAIRouter", "AsyncOpenAIRouter"} /\ ~router.local
     /\ router.pc = "done"
     /\ router.args.stream = JBool(TRUE)
     /\ router.got = "stream" /\ router.chunks = <<>>)
    => /\ router.outcome.kind = "raise"
       /\ router.outcome.exc = "RuntimeError"

\* C25: in upstream mode, messages.create of OpenAIRouter and
\* AsyncOpenAIRouter passes stop_sequences as stop, the stream flag as stream
\* and top_p as top_p to the chat-completions call, and never passes top_k
\* or metadata.
C25_SamplingArgumentsForwarded ==
    (/\ router.class \in {"OpenAIRouter", "AsyncOpenAIRouter"}
     /\ router.pc = "upstream")
    => /\ router.sent.api = "chat.completions.create"
       /\ Given(router.args.stop_sequences)
          => router.sent.stop = router.args.stop_sequences
       /\ Given(router.args.stream) => router.sent.stream = router.args.stream
       /\ Given(router.args.top_p) => router.sent.top_p = router.args.top_p
       /\ router.sent.top_k = Unsent
       /\ router.sent.metadata = Unsent


\* the Claude backend's function that a function of the Codex backend stands for
ClaudeTwin(caller) ==
    CASE caller = "CodexProxyHandler._call_claude_cli_async" ->
            "ClaudeCodeProxyHandler._call_claude_cli_async"
      [] caller = "CodexClient.create_message" -> "ClaudeCodeClient.create_message"
      [] caller = "CodexClient.acreate_message" -> "ClaudeCodeClient.acreate_message"
      [] OTHER -> caller

\* the four outcomes of the CLI: output with exit 0, non-zero exit, missing
\* binary, timeout
CliOutcomes == {"exit0", "nonzero", "FileNotFoundError", "timeout"}

\* the event that ended the CLI call of frame c
OutcomeEvent(c) ==
    IF c.env = "exit0" THEN Exited(0, c.out, <<>>) ELSE FailureEvent(c.env)

\* C27 (as claimed): when a function of the Codex backend (the handler's CLI
\* call, CodexClient.create_message, CodexClient.acreate_message) has ended
\* on one of the four CLI outcomes, the Claude backend's function reacts to
\* the same outcome in the same way: the same kind of result (return or
\* raise) with the same text, the child killed exactly when the Codex side
\* killed it, and, for a handler, an envelope of the same kind and the same
\* error-type tag.
C27_CodexLikeClaude ==
    (/\ cli.pc = "done" /\ cli.env \in CliOutcomes
     /\ cli.caller \in {"CodexProxyHandler._call_claude_cli_async",
                        "CodexClient.create_message", "CodexClient.acreate_message"})
    => \E claude \in {React(ClaudeTwin(cli.caller), OutcomeEvent(cli), FALSE)} :
          /\ cli.result.kind = claude.result.kind
          /\ cli.result.text = claude.result.text
          /\ claude.kill <=> (\E i \in DOMAIN cli.events : cli.events[i] = "kill")
          /\ (hcall.pc = "done" /\ hcall.handler = "codex")
             => \E envelope \in {HandlerEnd("claude", hcall.endpoint, claude.result)} :
                   /\ hcall.envelope.kind = envelope.kind
                   /\ hcall.envelope.type = envelope.type


\* the rules of handle_messages_request in the order claimed
MessagesRules ==
    <<"messages", "model", "max_tokens", "system", "temperature", "stream",
      "prompt length">>

\* the answer of one rule to a body: the message of its error, "" when the
\* body keeps the rule (a model that is not a string makes the model check
\* raise, which the handler answers with "Failed to process request")
RuleAnswer(handler, rule, b) ==
    CASE rule = "messages" ->
            IF validate_messages(Get(b.messages, JList(<<>>))) = "ok" THEN ""
            ELSE validate_messages(Get(b.messages, JList(<<>>)))
      [] rule = "model" ->
            CASE validate_model(handler, Get(b.model, JStr(NameSonnet3))) = "valid" -> ""
              [] validate_model(handler, Get(b.model, JStr(NameSonnet3))) = "raise" ->
                    "Failed to process request"
              [] OTHER -> "unsupported model"
      [] rule = "max_tokens" ->
            IF /\ IsInt(Get(b.max_tokens, JInt(DefaultMaxTokens)))
               /\ Get(b.max_tokens, JInt(DefaultMaxTokens)).i \in 1..MaxTokensLimit
            THEN "" ELSE "max_tokens out of range"
      [] rule = "system" ->
            IF Truthy(b.system)
               /\ (b.system.kind # "str" \/ StrLen(b.system.s) > MAX_MESSAGE_LENGTH)
            THEN "system prompt too long or invalid" ELSE ""
      [] rule = "temperature" ->
            IF b.temperature.kind \in {"absent", "null"} THEN ""
            ELSE IF IsNumber(b.temperature) /\ Tenths(b.temperature) \in 0..20 THEN ""
            ELSE "temperature out of range"
      [] rule = "stream" ->
            IF Truthy(b.stream) THEN "streaming not supported" ELSE ""
      [] OTHER ->
            IF StrLen(format_messages_for_claude(b.messages, Get(b.system, JNull)))
               > MAX_PROMPT_LENGTH
            THEN "total prompt too long" ELSE ""

\* the rules a body breaks, the last one left out when an earlier one is
\* broken (the prompt is built from checked messages only)
BrokenRules(handler, b) ==
    LET fields == {k \in 1..(Len(MessagesRules) - 1) :
                      RuleAnswer(handler, MessagesRules[k], b) # ""}
    IN  IF fields # {} THEN fields
        ELSE {k \in {Len(MessagesRules)} :
                 RuleAnswer(handler, MessagesRules[k], b) # ""}

\* C28: handle_messages_request, given a JSON object by POST, answers with
\* the error of the first rule the body breaks, in the order messages,
\* model, max_tokens, system, temperature, stream, prompt length, whatever
\* later rules the body breaks as well, and calls the CLI only when the body
\* breaks none.
C28_FirstViolationOnly ==
    (/\ hcall.pc # "idle" /\ hcall.endpoint = "messages"
     /\ hcall.method = "POST" /\ hcall.body.t = "dict")
    => \E broken \in {BrokenRules(hcall.handler, hcall.body)} :
          IF broken = {}
          THEN cli.pc # "idle"
          ELSE \E first \in broken :
                  /\ \A k \in broken : first <= k
                  /\ hcall.pc = "done" /\ cli.pc = "idle"
                  /\ hcall.envelope.kind = "error"
                  /\ hcall.envelope.message
                        = RuleAnswer(hcall.handler, MessagesRules[first], hcall.body)

\* a body that breaks the rules of model, max_tokens, system, temperature
\* and stream is answered with the error of the model rule
C28_Witness ==
    /\ hcall.pc = "done" /\ hcall.endpoint = "messages" /\ hcall.method = "POST"
    /\ BrokenRules(hcall.handler, hcall.body) = 2..6
    /\ hcall.body.model = JStr(<<"gpt", "4">>)
    /\ hcall.envelope.message = "unsupported model"

\* a body that breaks the messages rule and whose model is not a string is
\* answered with the error of the messages rule: the model check did not run
C28_WitnessNotEvaluated ==
    /\ hcall.pc = "done" /\ hcall.endpoint = "messages" /\ hcall.method = "POST"
    /\ hcall.body.messages = JList(<<>>) /\ hcall.body.model = JInt(5)
    /\ hcall.envelope.message = "cannot be empty"
    /\ hcall.envelope.type = <<"invalid", "request", "error">>


\* a key of the body holds a value of a type its endpoint does not take: a
\* model that is a number, a list or an object; a generationConfig that is
\* not an object, or one whose maxOutputTokens is not a number
WrongType(endpoint, b) ==
    IF endpoint \in {"messages", "complete"}
    THEN b.model.kind \notin {"absent", "null", "str"}
    ELSE \/ b.generationConfig.kind \notin {"absent", "dict"}
         \/ /\ b.generationConfig.kind = "dict"
            /\ b.generationConfig.s[1].kind \notin {"absent", "int", "float"}

\* the error-type tags of the 400 class: invalid_request_error of the
\* Anthropic dialect, INVALID_ARGUMENT of the Gemini dialect
InvalidRequestTags == {<<"invalid", "request", "error">>, <<"INVALID", "ARGUMENT">>}

\* C29 (as claimed): a handler given, by POST, a JSON object with a key of a
\* wrong type answers at once, without a CLI call, with an error of the 400
\* class (invalid_request_error, INVALID_ARGUMENT), never api_error or
\* INTERNAL.
C29_WrongTypeIsInvalidRequest ==
    (/\ hcall.pc # "idle" /\ hcall.method = "POST" /\ hcall.body.t = "dict"
     /\ WrongType(hcall.endpoint, hcall.body))
    => /\ hcall.pc = "done" /\ cli.pc = "idle"
       /\ hcall.envelope.kind = "error"
       /\ hcall.envelope.type \in InvalidRequestTags


\* C30 (as claimed): the prompt that handle_messages_request or
\* handle_complete_request hands to the CLI call, in its final form with
\* any cue appended, is at most MAX_PROMPT_LENGTH characters long.
C30_PromptWithinBound ==
    (/\ hcall.pc \in {"cli", "done"} /\ cli.pc # "idle"
     /\ hcall.endpoint \in {"messages", "complete"})
    => StrLen(hcall.prompt) <= MAX_PROMPT_LENGTH


\* C31 (as claimed): no two Messages that the local clients have returned
\* carry the same id, whatever the time between them.
C31_IdsDiffer ==
    \A i, j \in DOMAIN ids.issued : i # j => ids.issued[i] # ids.issued[j]


\* the credential as claimed: the x-api-key header whenever it is not empty
\* (nothing when it has MaxHeaderLength characters or more), the bearer
\* token of the authorization header only when x-api-key is absent or empty
PrimaryHeaderWins(request) ==
    IF request.x_api_key.s # <<>>
    THEN IF StrLen(request.x_api_key.s) < MaxHeaderLength
         THEN request.x_api_key.s ELSE <<>>
    ELSE IF /\ StrLen(request.authorization.s) < MaxHeaderLength
            /\ StartsWith(request.authorization.s, LitBearer)
         THEN Drop(request.authorization.s, 7)
    ELSE <<>>

\* C32 (as claimed): the request hook, run on a validated request to a
\* recognized host, routes the request locally (to a handler, or to an
\* answer of its own) exactly when the credential chosen with the primary
\* header winning is all nines; with a non-empty x-api-key header the
\* bearer token plays no part.
C32_PrimaryHeaderWins ==
    [][(flow.pc = "request" /\ Validated(flow.request))
       => (flow'.pc \in {"handler", "answered"}
           <=> is_all_nines(PrimaryHeaderWins(flow.request)))]_vars


\* C33: the body a proxy handler returns after a failed CLI call embeds
\* neither the CLI's stderr nor the text of the exception, and after a
\* non-zero exit it is the body the handler returns for any other stderr.
C33_BodyIndependentOfStderr ==
    (hcall.pc = "done" /\ cli.pc = "done" /\ cli.result.kind = "raise")
    => /\ hcall.envelope.kind = "error" /\ hcall.envelope.leak = ""
       /\ cli.env = "nonzero"
          => \A errtext \in StderrSamples :
                HandlerEnd(hcall.handler, hcall.endpoint,
                           React(HandlerCli(hcall.handler),
                                 Exited(1, cli.out, errtext), FALSE).result)
                = hcall.envelope

\* the Claude handler has answered a non-zero exit of the CLI
C33_Witness ==
    /\ hcall.pc = "done" /\ hcall.handler = "claude" /\ hcall.endpoint = "messages"
    /\ cli.pc = "done" /\ cli.env = "nonzero" /\ cli.result.exc = "CLIError"
    /\ hcall.envelope.type = <<"api", "error">> /\ hcall.envelope.message = "cli error"

\* a handler has answered an exception it does not expect (the spawn failed
\* for a reason other than a missing file)
C33_WitnessUnexpected ==
    /\ hcall.pc = "done" /\ hcall.handler = "claude"
    /\ cli.pc = "done" /\ cli.env = "PermissionError"
    /\ cli.result.leak = "cause"
    /\ hcall.envelope.message = "Failed to process request"


\* the flow in hand ends with this step: its response hook has run
FlowEnds == flow.pc \in {"answered", "replied"} /\ flow'.pc = "idle"

\* C34 (as claimed): the errors counter changes only at the end of a flow,
\* where it goes up by one when the flow was to a recognized host and its
\* final status is not 2xx, and stays as it is otherwise.
C34_ErrorsCountNon2xx ==
    [][IF FlowEnds
       THEN stats'.errors
               = stats.errors
                 + (IF /\ is_anthropic_request(flow.request)
                          \/ is_openai_request(flow.request)
                       /\ flow.response.status \notin 200..299
                    THEN 1 ELSE 0)
       ELSE stats'.errors = stats.errors]_vars

\* C34, the same for the response hook alone and with 400 as the least
\* status counted: used to tell the two departures apart
C34_ResponseHookCountsFrom400 ==
    [][FlowEnds
       => stats'.errors
             = stats.errors
               + (IF /\ is_anthropic_request(flow.request)
                        \/ is_openai_request(flow.request)
                     /\ flow.response.status >= 400
                  THEN 1 ELSE 0)]_vars


\* C35 (as claimed): when GeminiProxyHandler._call_gemini_cli_async or
\* GeminiClient._call_gemini_cli_async has returned or raised after the
\* child's success, non-zero exit or timeout, it has spawned exactly one
\* child and that child has terminated and been reaped.
C35_GeminiOneChildTerminated ==
    (/\ cli.caller \in {"GeminiProxyHandler._call_gemini_cli_async",
                        "GeminiClient._call_gemini_cli_async"}
     /\ cli.pc = "done" /\ cli.env \in {"exit0", "nonzero", "timeout"})
    => /\ cli.procs = 1
       /\ cli.proc = "reaped"

\* C35, without the timeout path: what the two functions do keep
C35_GeminiOneChildUnlessTimeout ==
    (/\ cli.caller \in {"GeminiProxyHandler._call_gemini_cli_async",
                        "GeminiClient._call_gemini_cli_async"}
     /\ cli.pc = "done" /\ cli.env \in {"exit0", "nonzero", "timeout"})
    => /\ cli.procs = 1
       /\ cli.env # "timeout" => cli.proc = "reaped"


\* the least element of a non-empty set of numbers
Least(S) == CHOOSE i \in S : \A j \in S : i <= j

\* the table and the family keywords of a function that runs the Claude or
\* the Codex CLI
TableOf(caller) ==
    CASE caller = "ClaudeCodeProxyHandler._call_claude_cli_async" ->
            [exe |-> "claude", table |-> ClaudeCodeProxyHandler_model_map,
             keywords |-> ClaudeCodeProxyHandler_known_types]
      [] caller \in {"ClaudeCodeClient.create_message",
                     "ClaudeCodeClient.acreate_message"} ->
            [exe |-> "claude", table |-> ClaudeCodeClient_model_map,
             keywords |-> ClaudeCodeClient_names]
      [] OTHER ->
            [exe |-> "codex", table |-> Codex_model_map, keywords |-> Codex_names]

ClaudeCodexCallers ==
    Clients \cup {"ClaudeCodeProxyHandler._call_claude_cli_async",
                  "CodexProxyHandler._call_claude_cli_async"}

\* the token the rule of C36 selects for a model: <<>> for none
TokenByRule(caller, model) ==
    LET t == TableOf(caller)
        inTable == {i \in 1..Len(t.table) : Contains(model.s, t.table[i].full_name)}
        inKeywords == {i \in 1..Len(t.keywords) :
                          Contains(Lower(model.s), t.keywords[i])}
    IN  IF model.kind # "str" \/ model.s = <<>> THEN <<>>
        ELSE IF inTable # {} THEN t.table[Least(inTable)].short_name
        ELSE IF inKeywords # {} THEN t.keywords[Least(inKeywords)]
        ELSE <<>>

\* C36: the command line of the Claude or Codex CLI is the executable and
\* --print, followed by --model and a token exactly when the rule selects
\* one: none without a model; else the token of the first table entry, in
\* table order, whose identifier the model contains; else the first keyword,
\* in list order, that the lower-cased model contains; else none.
C36_ModelTokenByRule ==
    spawned.caller \in ClaudeCodexCallers
    => \E token \in {TokenByRule(spawned.caller, spawned.model)} :
          spawned.cmd
             = <<(<<TableOf(spawned.caller).exe>>), <<"--print">>>>
               \o (IF token = <<>> THEN <<>> ELSE <<(<<"--model">>), token>>)

\* a model holding two keywords, the later of the list first: list order wins
C36_Witness ==
    /\ spawned.caller = "ClaudeCodeProxyHandler._call_claude_cli_async"
    /\ spawned.model = JStr(<<"sonnet", "opus">>)
    /\ spawned.cmd = <<(<<"claude">>), <<"--print">>, <<"--model">>, <<"opus">>>>

\* a model that matches neither the table nor a keyword: no --model flag
C36_WitnessNoToken ==
    /\ spawned.caller = "CodexProxyHandler._call_claude_cli_async"
    /\ spawned.model = JStr(<<"gpt", "4">>)
    /\ spawned.cmd = <<(<<"codex">>), <<"--print">>>>


\* the hosts of the samples that the addon recognizes, in any case of letters
RecognizedHostSpellings ==
    {"api.anthropic.com", "anthropic.com", "api.openai.com", "openai.com",
     "API.OpenAI.com"}

\* C37: for a flow whose host is not recognized, the request hook leaves
\* every statistics counter, flow.response and the request as they are and
\* starts no handler call and no CLI call.
C37_UnrecognizedHostUntouched ==
    [][(flow.pc = "request" /\ flow.request.host \notin RecognizedHostSpellings)
       => /\ stats' = stats
          /\ flow'.response = flow.response
          /\ flow'.request = flow.request
          /\ hcall' = hcall /\ cli' = cli]_vars

\* the request hook has returned for a flow to a host that is not recognized
C37_Witness ==
    /\ flow.pc = "ignored"
    /\ flow.request.host = "example.com"
    /\ flow.response = NoResponse


\* C38 (as claimed): whichever classifier gave the verdict on a credential
\* string, each of the four classifiers gives the same verdict on it.
C38_ClassifiersAgree ==
    kverdict.by # "none"
    => /\ kverdict.v = is_all_nines(kverdict.key)
       /\ kverdict.v = is_all_nines_api_key(Some(kverdict.key))
       /\ kverdict.v = check_claude_code_mode(kverdict.key)
       /\ kverdict.v = gemini_is_all_nines(Some(kverdict.key))

\* C38 for the two library classifiers of the Anthropic side alone
C38_UtilsAndRouterAgree ==
    kverdict.by # "none"
    => is_all_nines_api_key(Some(kverdict.key)) = check_claude_code_mode(kverdict.key)

\* C38 for the Gemini classifier and a credential without '-'
C38_GeminiAgreesWithoutDash ==
    (kverdict.by # "none" /\ CountChar(kverdict.key, "-") = 0)
    => gemini_is_all_nines(Some(kverdict.key)) = check_claude_code_mode(kverdict.key)


\* the arguments that are fixed in a handler's code: its executable, its
\* flags, the tokens of its table and keyword list, and for Gemini the name
\* it uses when the path names no model
FixedArguments(caller) ==
    IF caller = "GeminiProxyHandler._call_gemini_cli_async"
    THEN {<<"gemini">>, <<"--model">>, GeminiDefaultModel}
    ELSE {<<TableOf(caller).exe>>, <<"--print">>, <<"--model">>}
         \cup {TableOf(caller).table[i].short_name : i \in 1..Len(TableOf(caller).table)}
         \cup {TableOf(caller).keywords[i] : i \in 1..Len(TableOf(caller).keywords)}

\* C39 (as claimed): every argument of a CLI process that a proxy handler
\* spawns for a request is one of the handler's fixed arguments: no string
\* taken from the request is on the command line.
C39_ArgvFixed ==
    spawned.via = "request"
    => \A i \in 1..Len(spawned.cmd) : spawned.cmd[i] \in FixedArguments(spawned.caller)

\* C39 for the Claude and the Codex handler alone
C39_ClaudeCodexArgvFixed ==
    (spawned.via = "request" /\ spawned.caller \in ClaudeCodexCallers)
    => \A i \in 1..Len(spawned.cmd) : spawned.cmd[i] \in FixedArguments(spawned.caller)


\* C40: a call of generate_content / generate_content_async goes to the
\* GeminiClient exactly when the key that was configured at the construction
\* of its GenerativeModel is all nines, and to the real library otherwise,
\* whatever key is configured at the time of the call; an object made in
\* local mode holds no real model and has made no call to the real library.
C40_ModeFixedAtConstruction ==
    /\ gemini.pc = "local"
       => gemini_is_all_nines(gemini.models[gemini.current].key)
    /\ gemini.pc = "upstream"
       => ~gemini_is_all_nines(gemini.models[gemini.current].key)
    /\ (gemini.pc = "done" /\ gemini.outcome = "NotImplementedError")
       => gemini_is_all_nines(gemini.models[gemini.current].key)
    /\ \A i \in DOMAIN gemini.models :
          /\ gemini_is_all_nines(gemini.models[i].key)
             => /\ ~gemini.models[i].genai_model
                /\ gemini.models[i].genai_calls = 0
          /\ ~gemini_is_all_nines(gemini.models[i].key)
             => gemini.models[i].client_calls = 0

\* an object made under an all-nines key is called, locally, after configure
\* has set a real key
C40_Witness ==
    /\ gemini.pc = "local"
    /\ gemini_is_all_nines(gemini.models[gemini.current].key)
    /\ gemini.configured.some /\ ~gemini_is_all_nines(gemini.configured)

\* an object made under a real key is called, upstream, after configure has
\* set an all-nines key
C40_WitnessUpstream ==
    /\ gemini.pc = "upstream"
    /\ ~gemini_is_all_nines(gemini.models[gemini.current].key)
    /\ gemini_is_all_nines(gemini.configured)

====
